---- MODULE Spec2Model ----
(***************************************************************************)
(* lucidity: the memory tree (src/src/tree.js) and the curator process     *)
(* that maintains it (src/src/curator.js, src/src/transcript.js).          *)
(*                                                                         *)
(* Time is counted in hours: a timestamp is the number of hours since an   *)
(* epoch, so the code's millisecond thresholds 3600000, 86400000 and       *)
(* 604800000 are 1, 24 and 168.                                            *)
(***************************************************************************)
EXTENDS Integers, Sequences, FiniteSets, TLC

VARIABLES
  tree,        \* tree.js: { nodes: id -> node, trunk: [id], version }
  now,         \* the wall clock (Date.now()), in hours
  nextId,      \* the next id makeId() returns (ids are never reused)
  call,        \* the last tree.js call: its arguments and its outcome
  fs,          \* the file system: path -> file content, or NoFile
  save,        \* the running saveTree call: its position and its argument
  stream,      \* the transcript file: the chunks and markers appended to it
  proc,        \* the curator process: alive or not, running, lastCurationOffset
  pass,        \* the curate() calls in flight: where each one is suspended
  ghost        \* history: the chunks ever read, the targets whose summary failed

vars == <<tree, now, nextId, call, fs, save, stream, proc, pass, ghost>>

----------------------------------------------------------------------------
(* Bounds of the model                                                     *)

\* how many nodes the tree operations may create
MaxNew == 2

\* the longest spine of a snapshot (the three-node spine of Scenario apart)
MaxSpine == 2

\* how many nodes the link graph of a snapshot has
MaxGraph == 3

\* how many chunks the agent appends to the transcript
MaxAppends == 2

\* how many times the curator process dies without a shutdown
MaxCrashes == 1


----------------------------------------------------------------------------
(* tree.js: the data structure                                             *)

\* tree.js:61  const levels = ['full', 'summary', 'oneliner', 'tag']
levels == <<"full", "summary", "oneliner", "tag">>

\* Array.prototype.indexOf, 0-based, -1 when absent
indexOf(seq, x) ==
  IF \E i \in 1..Len(seq) : seq[i] = x
  THEN (CHOOSE i \in 1..Len(seq) : seq[i] = x /\ \A j \in 1..(i-1) : seq[j] # x) - 1
  ELSE -1

\* the messages of the two errors tree.js throws
ErrNotFound == "not found"
ErrInvalidTransition == "cannot compress"
NoError == "ok"

\* tree.js:18-29  createNode; id is what makeId() returned, at is the clock
createNode(id, content, depth, at) ==
  [ id |-> id, created_at |-> at, updated_at |-> at, depth |-> depth,
    content |-> content, links |-> <<>>, summary_level |-> "full" ]

\* tree.js:31-37
createTree == [ nodes |-> <<>>, trunk |-> <<>>, version |-> 1 ]

\* obj[key] = value on a JS object
Put(f, k, v) == [ x \in (DOMAIN f) \cup {k} |-> IF x = k THEN v ELSE f[x] ]

\* delete obj[key]
Delete(f, k) == [ x \in (DOMAIN f) \ {k} |-> f[x] ]

\* the new id is pushed at the end of the trunk
addTrunkNodeAtTail(t, id, content, at) ==
  [ t EXCEPT !.nodes = Put(t.nodes, id, createNode(id, content, 0, at)),
             !.trunk = t.trunk \o <<id>> ]

\* tree.js:39-44  addTrunkNode: unshift puts the new id at the head
addTrunkNode(t, id, content, at) ==
  [ t EXCEPT !.nodes = Put(t.nodes, id, createNode(id, content, 0, at)),
             !.trunk = <<id>> \o t.trunk ]

\* tree.js:47  tree.nodes is a plain object, so tree.nodes[k] also finds what
\* every object inherits ("constructor", "toString", "__proto__", ...);
\* ProtoKey stands for such a name: it is a key of no node map
ProtoKey == 0

Inherited == {ProtoKey}

\* tree.js:47-48  truthiness of tree.nodes[k]
Found(nodes, k) == k \in DOMAIN nodes \/ k \in Inherited

\* tree.js:49  parent.depth + 1 when the parent has no depth: undefined + 1
NaN == -1

\* JSON.stringify writes NaN as null (tree.js:133), and JSON.parse reads it
\* back as null
Null == -2

\* tree.js:49  parent.depth + 1 in the arithmetic of the language:
\* NaN + 1 is NaN, null + 1 is 1
Plus1(depth) == IF depth = NaN THEN NaN ELSE IF depth = Null THEN 1 ELSE depth + 1

\* tree.js:52  parent.links.push when the parent has no links
ErrTypeError == "cannot read properties of undefined"

\* the link is put at the front of the parent's list
addBranchNodeLinkFirst(t, parentId, id, content, label, at) ==
  IF ~Found(t.nodes, parentId)
  THEN [ tree |-> t, error |-> ErrNotFound, node |-> 0 ]
  ELSE IF parentId \notin DOMAIN t.nodes
  THEN [ tree |-> [ t EXCEPT !.nodes = Put(t.nodes, id, createNode(id, content, NaN, at)) ],
         error |-> ErrTypeError, node |-> 0 ]
  ELSE LET parent == t.nodes[parentId]
           node == createNode(id, content, Plus1(parent.depth), at)
           parent2 == [ parent EXCEPT
                          !.links = <<[ target_id |-> id, label |-> label ]>> \o @,
                          !.updated_at = at ]
       IN [ tree |-> [ t EXCEPT !.nodes = Put(Put(t.nodes, id, node), parentId, parent2) ],
            error |-> NoError, node |-> id ]

\* tree.js:46-55  addBranchNode: when tree.nodes[parentId] is an inherited
\* value the new node is stored (line 51) before line 52 throws
addBranchNode(t, parentId, id, content, label, at) ==
  IF ~Found(t.nodes, parentId)
  THEN [ tree |-> t, error |-> ErrNotFound, node |-> 0 ]
  ELSE IF parentId \notin DOMAIN t.nodes
  THEN [ tree |-> [ t EXCEPT !.nodes = Put(t.nodes, id, createNode(id, content, NaN, at)) ],
         error |-> ErrTypeError, node |-> 0 ]
  ELSE LET parent == t.nodes[parentId]
           node == createNode(id, content, Plus1(parent.depth), at)
           parent2 == [ parent EXCEPT
                          !.links = Append(@, [ target_id |-> id, label |-> label ]),
                          !.updated_at = at ]
       IN [ tree |-> [ t EXCEPT !.nodes = Put(Put(t.nodes, id, node), parentId, parent2) ],
            error |-> NoError, node |-> id ]

\* the guard with < for <=: a node may be compressed again to its own level
CompressRefusedOnlyBackwards(currentIdx, targetIdx) == targetIdx < currentIdx

\* tree.js:65  the guard of compressNode: the transition is refused
CompressRefused(currentIdx, targetIdx) == targetIdx <= currentIdx

\* a node compressed to the last level is dropped from the node map
compressNodeEvicting(t, nodeId, newContent, targetLevel, at) ==
  IF nodeId \notin DOMAIN t.nodes
  THEN [ tree |-> t, error |-> ErrNotFound ]
  ELSE [ tree |-> [ t EXCEPT !.nodes = Delete(t.nodes, nodeId) ], error |-> NoError ]

\* tree.js:57-73  compressNode
compressNode(t, nodeId, newContent, targetLevel, at) ==
  IF nodeId \notin DOMAIN t.nodes
  THEN [ tree |-> t, error |-> ErrNotFound ]
  ELSE LET node == t.nodes[nodeId]
           currentIdx == indexOf(levels, node.summary_level)
           targetIdx == indexOf(levels, targetLevel)
       IN IF CompressRefused(currentIdx, targetIdx)
          THEN [ tree |-> t, error |-> ErrInvalidTransition ]
          ELSE [ tree |-> [ t EXCEPT !.nodes[nodeId] =
                              [ node EXCEPT !.content = newContent,
                                            !.summary_level = targetLevel,
                                            !.updated_at = at ] ],
                 error |-> NoError ]

\* the elements of a finite set of numbers in increasing order: the order
\* Object.values / Object.entries visit the nodes in (insertion order)
RECURSIVE SortedSeq(_)
SortedSeq(S) ==
  IF S = {} THEN <<>>
  ELSE LET m == CHOOSE x \in S : \A y \in S : x <= y
       IN <<m>> \o SortedSeq(S \ {m})

\* the elements of a JS array
Range(seq) == { seq[i] : i \in 1..Len(seq) }

\* the referenced set without the link targets: only the trunk is kept
ReferencedTrunkOnly(t) == Range(t.trunk)

\* tree.js:77-88  the referenced set of pruneOrphans: every link target of
\* every node of the map, and every trunk id
Referenced(t) ==
  UNION { { l.target_id : l \in Range(t.nodes[n].links) } : n \in DOMAIN t.nodes }
  \cup Range(t.trunk)

\* the age test with >= for >
TooOldAtThreshold(age, maxAgeMs) == age >= maxAgeMs

\* tree.js:94  the age test of pruneOrphans
TooOld(age, maxAgeMs) == age > maxAgeMs

\* tree.js:75  the default of maxAgeMs: 7 days
DefaultMaxAge == 168

\* tree.js:75-101  pruneOrphans
pruneOrphans(t, maxAgeMs, at) ==
  LET referenced == Referenced(t)
      gone == { id \in DOMAIN t.nodes :
                  id \notin referenced /\ TooOld(at - t.nodes[id].created_at, maxAgeMs) }
  IN [ tree |-> [ t EXCEPT !.nodes = [ x \in (DOMAIN t.nodes) \ gone |-> t.nodes[x] ] ],
       pruned |-> SortedSeq(gone) ]

\* tree.js:104-108  the default thresholds: 1 hour, 1 day, 1 week
DefaultSummaryAge == 1
DefaultOnelinerAge == 24
DefaultTagAge == 168
defaults == [ summary |-> DefaultSummaryAge, oneliner |-> DefaultOnelinerAge,
              tag |-> DefaultTagAge ]

\* tree.js:109  { ...defaults, ...thresholds }
Merge(d, th) == [ k \in DOMAIN d |-> IF k \in DOMAIN th THEN th[k] ELSE d[k] ]

\* the target of a trunk node with an oneliner never due
TargetLevelNoTag(node, t, age) ==
  IF node.summary_level = "full" /\ age > t.summary THEN "summary"
  ELSE IF node.summary_level = "summary" /\ age > t.oneliner THEN "oneliner"
  ELSE ""

\* tree.js:118-124  the target of one trunk node, or "" when it is not due
TargetLevel(node, t, age) ==
  IF node.summary_level = "full" /\ age > t.summary THEN "summary"
  ELSE IF node.summary_level = "summary" /\ age > t.oneliner THEN "oneliner"
  ELSE IF node.summary_level = "oneliner" /\ age > t.tag THEN "tag"
  ELSE ""

\* tree.js:103-127  getCompactionTargets
RECURSIVE ScanTrunk(_, _, _, _)
ScanTrunk(t, trunk, th, at) ==
  IF trunk = <<>> THEN <<>>
  ELSE LET id == Head(trunk)
           rest == ScanTrunk(t, Tail(trunk), th, at)
       IN IF id \notin DOMAIN t.nodes THEN rest
          ELSE LET node == t.nodes[id]
                   to == TargetLevel(node, th, at - node.created_at)
               IN IF to = "" THEN rest
                  ELSE <<[ id |-> id, from |-> node.summary_level, to |-> to ]>> \o rest

getCompactionTargets(t, thresholds, at) ==
  ScanTrunk(t, t.trunk, Merge(defaults, thresholds), at)

----------------------------------------------------------------------------
(* tree.js: persistence                                                    *)

\* a path holds no file, or a file with the text written to it so far
NoFile == [ state |-> "absent" ]
File(data) == [ state |-> "file", data |-> data ]

\* curator.js:71  TREE_PATH, and the temporary path next to it
TREE_PATH == "tree.json"
\* curator.js:70  SKILL_MD_PATH
SKILL_MD_PATH == "skill.md"
Paths == { TREE_PATH, TREE_PATH \o ".tmp", SKILL_MD_PATH, SKILL_MD_PATH \o ".tmp" }

\* a number in the text: NaN is written as null
JsonNumber(x) == IF x = NaN THEN Null ELSE x

\* the links of the nodes are left out of the text
StringifyWithoutLinks(t) ==
  << [ key |-> "nodes",
       value |-> LET ids == SortedSeq(DOMAIN t.nodes)
                 IN [ i \in 1..Len(ids) |->
                        [ key |-> ids[i],
                          value |-> [ t.nodes[ids[i]] EXCEPT !.depth = JsonNumber(@),
                                                             !.links = <<>> ] ] ] ],
     [ key |-> "trunk", value |-> t.trunk ],
     [ key |-> "version", value |-> t.version ] >>

\* JSON.stringify(tree, null, 2): the text of the object, one member after
\* the other in the order of createTree; the node map is written as the
\* sequence of its "id": node members in insertion order
Stringify(t) ==
  << [ key |-> "nodes",
       value |-> LET ids == SortedSeq(DOMAIN t.nodes)
                 IN [ i \in 1..Len(ids) |->
                        [ key |-> ids[i],
                          value |-> [ t.nodes[ids[i]] EXCEPT !.depth = JsonNumber(@) ] ] ] ],
     [ key |-> "trunk", value |-> t.trunk ],
     [ key |-> "version", value |-> t.version ] >>

\* the text '{}': JSON that is no tree, and the object JSON.parse makes of it
EmptyObjectText == << [ key |-> "{}", value |-> <<>> ] >>
EmptyObject == [ version |-> -2 ]

\* JSON.parse accepts a text only when the object is closed: when every
\* member was written
ParseOk(data) == Len(data) = Len(Stringify(createTree)) \/ data = EmptyObjectText

\* JSON.parse of a complete text: the node map is rebuilt from its members
Parse(data) ==
  IF data = EmptyObjectText THEN EmptyObject ELSE
  [ nodes |-> LET members == data[1].value
              IN [ id \in { members[i].key : i \in 1..Len(members) } |->
                     (CHOOSE m \in Range(members) : m.key = id).value ],
    trunk |-> data[2].value,
    version |-> data[3].value ]

\* the save writes the canonical path itself
SaveWriteInPlace(filepath) == filepath

\* tree.js:132  const tmpPath = filepath + '.tmp'
SaveWritePath(filepath) == filepath \o ".tmp"

\* fs.renameSync: the destination is replaced in one step, the source is gone
Rename(files, from, to) ==
  IF from = to THEN files
  ELSE [ files EXCEPT ![to] = files[from], ![from] = NoFile ]

\* tree.js:137-141  loadTree: null (here: the NoTree value) when the file is absent
NoTree == [ version |-> 0 ]
DecodeError == [ version |-> -1 ]
loadTree(files, filepath) ==
  IF files[filepath] = NoFile THEN NoTree
  ELSE IF ParseOk(files[filepath].data) THEN Parse(files[filepath].data)
  ELSE DecodeError

\* no saveTree call is running
NoSave == [ pc |-> "idle", at |-> "", path |-> "", text |-> <<>>, prev |-> NoFile ]

----------------------------------------------------------------------------
(* curator.js and transcript.js: the transcript and the process state      *)

\* the transcript is a sequence of whole lines: a chunk the agent appended
\* (ref is its number) or a marker the curator appended (ref is a node id);
\* an offset is the number of lines before it
Chunk(n) == [ kind |-> "chunk", ref |-> n ]

\* curator.js:21-23, 61  the line `@@curated::<nodeId>@@`
Marker(nodeId) == [ kind |-> "marker", ref |-> nodeId ]

\* the marker is written over the last line of the transcript
writeMarkerInPlace(content, nodeId) ==
  IF content = <<>> THEN <<Marker(nodeId)>>
  ELSE [ content EXCEPT ![Len(content)] = Marker(nodeId) ]

\* curator.js:58-66  writeMarker: appendFileSync adds the marker line at the
\* end of the transcript
writeMarker(content, nodeId) == Append(content, Marker(nodeId))

\* curator.js:29-53  findLastMarkerOffset: the offset just past the last
\* marker, 0 when there is none
findLastMarkerOffset(content) ==
  LET found == { i \in 1..Len(content) : content[i].kind = "marker" }
  IN IF found = {} THEN 0 ELSE CHOOSE i \in found : \A j \in found : j <= i

\* the marker lines are parsed as plain text
parseTranscriptWithMarkers(raw) == [ i \in 1..Len(raw) |-> raw[i].ref ]

\* transcript.js:115-171  parseTranscript: the marker lines are skipped
parseTranscript(raw) ==
  LET IsText(line) == line.kind # "marker"
      text == SelectSeq(raw, IsText)
  IN [ i \in 1..Len(text) |-> text[i].ref ]

\* the whole file is read whatever the offset
readTranscriptFileFromStart(content, offset) ==
  IF Len(content) <= offset
  THEN [ text |-> <<>>, bytesRead |-> 0, newOffset |-> offset ]
  ELSE [ text |-> parseTranscript(content),
         bytesRead |-> Len(content), newOffset |-> Len(content) ]

\* transcript.js:181-206  readTranscriptFile from an offset to the end
readTranscriptFile(content, offset) ==
  IF Len(content) <= offset
  THEN [ text |-> <<>>, bytesRead |-> 0, newOffset |-> offset ]
  ELSE [ text |-> parseTranscript(SubSeq(content, offset + 1, Len(content))),
         bytesRead |-> Len(content) - offset, newOffset |-> Len(content) ]

\* the two callers of curate(): the loop of run() and shutdown()
Passes == {"timer", "shutdown"}

\* no curate() call is in flight
IdlePass == [ pc |-> "idle", delta |-> <<>>, targets |-> <<>> ]

\* curator.js:76-78  the state of a process that is not there
NoProcess == [ state |-> "down", running |-> FALSE, offset |-> 0 ]

\* what the properties need and the code does not keep: the chunks read so
\* far, the targets whose summarizer call failed, the number of crashes, the
\* end of the last marker written, and for each node made by ingestion the
\* chunks of the delta it was made of
NoGhost == [ read |-> {}, failed |-> {}, crashes |-> 0, marked |-> 0, from |-> <<>> ]

\* no curator runs
NoCurator ==
  /\ stream = <<>>
  /\ proc = NoProcess
  /\ pass = [ p \in Passes |-> IdlePass ]
  /\ ghost = NoGhost

----------------------------------------------------------------------------
(* The tree API as a state machine: any caller, any order of calls         *)

\* the record of a call; the fields a call does not use keep these values
NoCall ==
  [ op |-> "none", id |-> 0, level |-> "", content |-> "", maxAge |-> 0,
    th |-> <<>>, at |-> 0, error |-> NoError, node |-> 0,
    pruned |-> <<>>, targets |-> <<>>, maxTokens |-> 0, lines |-> <<>>, status |-> 0 ]

\* what the callers pass
NewContents == {"c"}
Summaries == {"s"}
Labels == {"topic"}
LevelArgs == Range(levels) \cup {"bogus"}
MaxAgeArgs == {0, DefaultMaxAge}
ThresholdArgs == { <<>>, [ summary |-> 0, oneliner |-> 0, tag |-> 0 ] }

\* the ids a caller may name: the ids handed out so far and one that was not
KnownIds == 1..nextId

\* parent ids a caller may pass: ids handed out so far (some of them pruned
\* since) and a name that is no id at all
ParentArgs == KnownIds \cup Inherited

\* no file system call is made by the tree operations themselves
FsIdle == fs = [ p \in Paths |-> NoFile ] /\ save = NoSave

Init ==
  /\ tree = createTree
  /\ now = 0
  /\ nextId = 1
  /\ call = NoCall
  /\ FsIdle
  /\ NoCurator

AddTrunkNodeCall(content) ==
  /\ nextId <= MaxNew
  /\ tree' = addTrunkNode(tree, nextId, content, now)
  /\ nextId' = nextId + 1
  /\ call' = [ NoCall EXCEPT !.op = "addTrunkNode", !.content = content,
                             !.node = nextId ]
  /\ UNCHANGED <<now, fs, save, stream, proc, pass, ghost>>

AddBranchNodeApply(parentId, content, label) ==
  /\ LET r == addBranchNode(tree, parentId, nextId, content, label, now)
     IN /\ tree' = r.tree
        /\ nextId' = IF r.error = ErrNotFound THEN nextId ELSE nextId + 1
        /\ call' = [ NoCall EXCEPT !.op = "addBranchNode", !.id = parentId,
                                   !.content = content,
                                   !.error = r.error, !.node = r.node ]
  /\ UNCHANGED <<now, fs, save, stream, proc, pass, ghost>>

AddBranchNodeCall(parentId, content, label) ==
  /\ nextId <= MaxNew
  /\ AddBranchNodeApply(parentId, content, label)

CompressNodeCall(nodeId, newContent, targetLevel) ==
  /\ LET r == compressNode(tree, nodeId, newContent, targetLevel, now)
     IN /\ tree' = r.tree
        /\ call' = [ NoCall EXCEPT !.op = "compressNode", !.id = nodeId,
                                   !.content = newContent, !.level = targetLevel,
                                   !.error = r.error ]
  /\ UNCHANGED <<now, nextId, fs, save, stream, proc, pass, ghost>>

PruneOrphansCall(maxAgeMs) ==
  /\ LET r == pruneOrphans(tree, maxAgeMs, now)
     IN /\ tree' = r.tree
        /\ call' = [ NoCall EXCEPT !.op = "pruneOrphans", !.maxAge = maxAgeMs,
                                   !.pruned = r.pruned ]
  /\ UNCHANGED <<now, nextId, fs, save, stream, proc, pass, ghost>>

\* a scan that compresses the head of the spine while it selects
GetCompactionTargetsCallMutating(thresholds) ==
  /\ call' = [ NoCall EXCEPT !.op = "getCompactionTargets", !.th = thresholds,
                             !.at = now,
                             !.targets = getCompactionTargets(tree, thresholds, now) ]
  /\ tree' = IF tree.trunk = <<>> THEN tree
             ELSE compressNode(tree, Head(tree.trunk), "s", "tag", now).tree
  /\ UNCHANGED <<now, nextId, fs, save, stream, proc, pass, ghost>>

GetCompactionTargetsCall(thresholds) ==
  /\ call' = [ NoCall EXCEPT !.op = "getCompactionTargets", !.th = thresholds,
                             !.at = now,
                             !.targets = getCompactionTargets(tree, thresholds, now) ]
  /\ UNCHANGED <<tree, now, nextId, fs, save, stream, proc, pass, ghost>>

\* the readings of the clock
Clock == {0, 1}

\* the readings of the clock after a snapshot was loaded
LoadedClock == {239, 240}

\* time passes
Tick ==
  /\ now + 1 \in Clock \cup LoadedClock
  /\ now' = now + 1
  /\ UNCHANGED <<tree, nextId, call, fs, save, stream, proc, pass, ghost>>

Next ==
  \/ \E c \in NewContents : AddTrunkNodeCall(c)
  \/ \E p \in KnownIds, c \in NewContents, l \in Labels : AddBranchNodeCall(p, c, l)
  \/ \E n \in KnownIds, c \in Summaries, l \in LevelArgs : CompressNodeCall(n, c, l)
  \/ \E m \in MaxAgeArgs : PruneOrphansCall(m)
  \/ \E th \in ThresholdArgs : GetCompactionTargetsCall(th)
  \/ Tick

Spec == Init /\ [][Next]_vars

\* callers that build and prune a tree and may name any parent
NextBranch ==
  \/ \E c \in NewContents : AddTrunkNodeCall(c)
  \/ \E p \in ParentArgs, c \in NewContents, l \in Labels : AddBranchNodeCall(p, c, l)
  \/ \E m \in MaxAgeArgs : PruneOrphansCall(m)
  \/ Tick

SpecBranch == Init /\ [][NextBranch]_vars

----------------------------------------------------------------------------
(* The tree operations on a tree loaded from a snapshot. A snapshot holds  *)
(* whatever was written to tree.json: nodes of any age and level, and, as  *)
(* in tree.test.js:239-257, nodes that nothing refers to.                  *)

\* a node of a snapshot
SeedNode(id, at, level, depth, links) ==
  [ id |-> id, created_at |-> at, updated_at |-> at, depth |-> depth,
    content |-> "seed", links |-> links, summary_level |-> level ]

Link(target) == [ target_id |-> target, label |-> "topic" ]

\* spines: k trunk nodes, id k at the head, of any level, created at the
\* hours 239, 167, 47, 23 or 1 hour(s) before the load, newest first; the
\* head may have a branch (id k + 1)
SpineTimes == {0, 72, 192, 216, 238}
SpineTree(k, at, lv, branch) ==
  [ nodes |-> [ i \in 1..(IF branch THEN k + 1 ELSE k) |->
                  IF i = k + 1 THEN SeedNode(i, 0, "full", 1, <<>>)
                  ELSE SeedNode(i, at[i], lv[i], 0,
                                IF branch /\ i = k THEN <<Link(k + 1)>> ELSE <<>>) ],
    trunk |-> [ i \in 1..k |-> k + 1 - i ],
    version |-> 1 ]
SpineSeeds ==
  { SpineTree(k, at, lv, b) :
      <<k, at, lv, b>> \in
        { q \in (0..MaxSpine) \X [1..MaxSpine -> SpineTimes] \X [1..MaxSpine -> Range(levels)]
                  \X BOOLEAN :
            /\ \A i \in 1..(MaxSpine - 1) : q[2][i] <= q[2][i + 1]
            /\ q[4] => q[1] >= 1 } }

\* spec.md, section 8: spine = [N3(full, 2h), N2(summary, 2d), N1(tag, 10d)]
\* at hour 240
Scenario ==
  [ nodes |-> <<SeedNode(1, 0, "tag", 0, <<>>), SeedNode(2, 192, "summary", 0, <<>>),
                SeedNode(3, 238, "full", 0, <<>>)>>,
    trunk |-> <<3, 2, 1>>,
    version |-> 1 ]

\* link graphs: nodes 1..MaxGraph, the spine empty or <<1>>, every node with
\* at most one link (to a node of the graph, or to the absent MaxGraph + 1),
\* the nodes off the spine created 239 hours before the load or at the load
GraphTimes == {0, 239}
GraphTree(onSpine, at, to) ==
  [ nodes |-> [ i \in 1..MaxGraph |->
                  SeedNode(i, IF i = 1 THEN 0 ELSE at[i], "full", IF i = 1 THEN 0 ELSE 1,
                           IF to[i] = 0 THEN <<>> ELSE <<Link(to[i])>>) ],
    trunk |-> IF onSpine THEN <<1>> ELSE <<>>,
    version |-> 1 ]
GraphSeeds ==
  { GraphTree(b, at, to) :
      <<b, at, to>> \in BOOLEAN \X [1..MaxGraph -> GraphTimes]
                          \X [1..MaxGraph -> 0..(MaxGraph + 1)] }

LoadedTrees == SpineSeeds \cup {Scenario} \cup GraphSeeds

InitLoaded ==
  /\ tree \in LoadedTrees
  /\ now = 239
  /\ nextId = 1 + Cardinality(DOMAIN tree.nodes)
  /\ call = NoCall
  /\ FsIdle
  /\ NoCurator

NextLoaded ==
  \/ \E m \in MaxAgeArgs : PruneOrphansCall(m)
  \/ \E th \in ThresholdArgs : GetCompactionTargetsCall(th)
  \/ Tick

SpecLoaded == InitLoaded /\ [][NextLoaded]_vars

----------------------------------------------------------------------------
(* saveTree, system call by system call, in a process that may die between *)
(* any two of them and is then started again                               *)

\* the process is between two saveTree calls
SaveAlive == save.pc \in {"idle", "done", "failed"}

\* tree.js:131-133  saveTree is entered: the text and the path it writes
SaveTreeCall ==
  /\ SaveAlive
  /\ save' = [ pc |-> "open", at |-> "", path |-> SaveWritePath(TREE_PATH),
               text |-> Stringify(tree), prev |-> fs[TREE_PATH] ]
  /\ UNCHANGED <<tree, now, nextId, call, fs, stream, proc, pass, ghost>>

\* tree.js:133  writeFileSync opens the path: the file is created or emptied
SaveTreeOpen ==
  /\ save.pc = "open"
  /\ fs' = [ fs EXCEPT ![save.path] = File(<<>>) ]
  /\ save' = [ save EXCEPT !.pc = "write" ]
  /\ UNCHANGED <<tree, now, nextId, call, stream, proc, pass, ghost>>

\* tree.js:133  writeFileSync writes the next part of the text
SaveTreeWrite ==
  /\ save.pc = "write"
  /\ LET done == Len(fs[save.path].data) + 1
     IN /\ fs' = [ fs EXCEPT ![save.path] = File(SubSeq(save.text, 1, done)) ]
        /\ save' = [ save EXCEPT !.pc = IF done = Len(save.text) THEN "rename" ELSE "write" ]
  /\ UNCHANGED <<tree, now, nextId, call, stream, proc, pass, ghost>>

\* tree.js:134  renameSync
SaveTreeRename ==
  /\ save.pc = "rename"
  /\ fs' = Rename(fs, save.path, TREE_PATH)
  /\ save' = [ save EXCEPT !.pc = "done" ]
  /\ UNCHANGED <<tree, now, nextId, call, stream, proc, pass, ghost>>

\* tree.js:133-134  a system call fails and saveTree throws
SaveTreeThrow ==
  /\ save.pc \in {"open", "write", "rename"}
  /\ save' = [ save EXCEPT !.pc = "failed" ]
  /\ UNCHANGED <<tree, now, nextId, call, fs, stream, proc, pass, ghost>>

\* the process dies; the files stay as they are
SaveCrash ==
  /\ save.pc # "crashed"
  /\ save' = [ save EXCEPT !.pc = "crashed", !.at = save.pc ]
  /\ UNCHANGED <<tree, now, nextId, call, fs, stream, proc, pass, ghost>>

\* curator.js:87-94  a new process loads the snapshot, or starts empty
SaveRestart ==
  /\ save.pc = "crashed"
  /\ loadTree(fs, TREE_PATH) # DecodeError
  /\ tree' = LET loaded == loadTree(fs, TREE_PATH)
             IN IF loaded = NoTree THEN createTree ELSE loaded
  /\ save' = [ save EXCEPT !.pc = "idle", !.at = "" ]
  /\ UNCHANGED <<now, nextId, call, fs, stream, proc, pass, ghost>>

NextSave ==
  \/ \E c \in NewContents : SaveAlive /\ AddTrunkNodeCall(c)
  \/ \E p \in KnownIds, c \in NewContents, l \in Labels :
        SaveAlive /\ AddBranchNodeCall(p, c, l)
  \/ \E n \in KnownIds, c \in Summaries :
        SaveAlive /\ CompressNodeCall(n, c, "summary")
  \/ SaveTreeCall
  \/ SaveTreeOpen
  \/ SaveTreeWrite
  \/ SaveTreeRename
  \/ SaveTreeThrow
  \/ SaveCrash
  \/ SaveRestart

SpecSave == Init /\ [][NextSave]_vars

----------------------------------------------------------------------------
(* The curator process. curate() is an async function: it runs until it    *)
(* awaits the summarizer, and other handlers of the process (the timer     *)
(* loop, the signal handler) run while it is suspended. One action is one  *)
(* run of the code between two suspensions. The last lines of curate()     *)
(* (skill.md and the snapshot) are an action of their own, which no other  *)
(* handler can precede, so that the process can die before them.           *)

\* the readings of the clock while the curator runs
CuratorClock == {0, 2}

\* curator.js:171-172  if (!node) continue
RECURSIVE SkipMissing(_, _)
SkipMissing(targets, t) ==
  IF targets = <<>> THEN <<>>
  ELSE IF Head(targets).id \in DOMAIN t.nodes THEN targets
  ELSE SkipMissing(Tail(targets), t)

\* curator.js:169-179, 201-204  the loop of compressTrunk up to its next
\* await; when no target is left, curate() goes on to pruneOrphans
Continue(p, t, targets) ==
  LET live == SkipMissing(targets, t)
  IN IF live # <<>>
     THEN /\ tree' = t
          /\ pass' = [ pass EXCEPT ![p] = [ pc |-> "summarize", delta |-> <<>>,
                                            targets |-> live ] ]
     ELSE /\ tree' = pruneOrphans(t, DefaultMaxAge, now).tree
          /\ pass' = [ pass EXCEPT ![p] = [ pc |-> "save", delta |-> <<>>,
                                            targets |-> <<>> ] ]

\* curator.js:166-168  compressTrunk is entered: the targets are selected
compressTrunk(p, t) == Continue(p, t, getCompactionTargets(t, <<>>, now))

\* a handler of the process may run: the process is alive and no curate()
\* call is in its last lines
Ready == proc.state = "up" /\ \A p \in Passes : pass[p].pc # "save"

\* curator.js:131-151, 182-190, 201  curate() from its entry to its first
\* await; running is the value the caller leaves in `running`
CurateBegin(p, running) ==
  LET r == readTranscriptFile(stream, proc.offset)
      delta == IF r.bytesRead = 0 THEN <<>> ELSE r.text
  IN /\ proc' = [ proc EXCEPT !.running = running,
                              !.offset = IF r.bytesRead = 0 THEN @ ELSE r.newOffset ]
     /\ ghost' = [ ghost EXCEPT !.read = @ \cup Range(delta) ]
     /\ IF delta # <<>>
        THEN /\ tree' = tree
             /\ pass' = [ pass EXCEPT ![p] = [ pc |-> "extract", delta |-> delta,
                                               targets |-> <<>> ] ]
        ELSE compressTrunk(p, tree)
     /\ UNCHANGED <<now, nextId, call, fs, save, stream>>

\* the loop of run() does not test `running`
TimerPassAnyway ==
  /\ Ready
  /\ pass["timer"].pc = "idle"
  /\ CurateBegin("timer", proc.running)

\* curator.js:222-224  the loop of run() starts a pass
TimerPass ==
  /\ Ready
  /\ proc.running
  /\ pass["timer"].pc = "idle"
  /\ CurateBegin("timer", TRUE)

\* curator.js:228-231  a signal arrives: shutdown() starts a pass of its own
Shutdown ==
  /\ Ready
  /\ proc.running
  /\ CurateBegin("shutdown", FALSE)

\* curator.js:190-201  extractKeyFacts returned: the node, the marker, and
\* compressTrunk up to its first await
ExtractDone(p) ==
  /\ Ready
  /\ pass[p].pc = "extract"
  /\ nextId' = nextId + 1
  /\ stream' = writeMarker(stream, nextId)
  /\ ghost' = [ ghost EXCEPT !.marked = Len(stream'),
                             !.from = @ @@ (nextId :> Range(pass[p].delta)) ]
  /\ compressTrunk(p, addTrunkNode(tree, nextId, "facts", now))
  /\ UNCHANGED <<now, call, fs, save, proc>>

\* curator.js:173-175  summarize returned: compressNode, whose throw the
\* catch of line 176 takes, and the rest of the loop
SummarizeDone(p) ==
  /\ Ready
  /\ pass[p].pc = "summarize"
  /\ LET target == Head(pass[p].targets)
         r == compressNode(tree, target.id, "s", target.to, now)
     IN /\ Continue(p, r.tree, Tail(pass[p].targets))
        /\ ghost' = [ ghost EXCEPT !.failed =
                        IF r.error = NoError THEN { f \in @ : f.id # target.id } ELSE @ ]
  /\ UNCHANGED <<now, nextId, call, fs, save, stream, proc>>

\* curator.js:173, 176-178  summarize threw: the catch logs it and the loop
\* goes on
SummarizeFailed(p) ==
  /\ Ready
  /\ pass[p].pc = "summarize"
  /\ Continue(p, tree, Tail(pass[p].targets))
  /\ ghost' = [ ghost EXCEPT !.failed = @ \cup {Head(pass[p].targets)} ]
  /\ UNCHANGED <<now, nextId, call, fs, save, stream, proc>>

\* curator.js:209-215, 122-128, 231-233  doWriteSkillMd and doSaveTree, whose
\* failure is logged only; the pass of shutdown() then ends the process
Finish(p, saved) ==
  /\ proc.state = "up"
  /\ pass[p].pc = "save"
  /\ fs' = IF saved THEN Rename([ fs EXCEPT ![SaveWritePath(TREE_PATH)] = File(Stringify(tree)) ],
                                SaveWritePath(TREE_PATH), TREE_PATH)
           ELSE fs
  /\ IF p = "shutdown"
     THEN /\ proc' = [ proc EXCEPT !.state = "down" ]
          /\ pass' = [ q \in Passes |-> IdlePass ]
          /\ ghost' = [ ghost EXCEPT !.failed = {} ]
     ELSE /\ pass' = [ pass EXCEPT ![p] = IdlePass ]
          /\ UNCHANGED <<proc, ghost>>
  /\ UNCHANGED <<tree, now, nextId, call, save, stream>>

\* the process dies: what is in memory is lost, the files stay
Crash ==
  /\ proc.state = "up"
  /\ ghost.crashes < MaxCrashes
  /\ proc' = [ proc EXCEPT !.state = "down" ]
  /\ pass' = [ q \in Passes |-> IdlePass ]
  /\ ghost' = [ ghost EXCEPT !.failed = {}, !.crashes = @ + 1 ]
  /\ UNCHANGED <<tree, now, nextId, call, fs, save, stream>>

\* curator.js:81-110, 250-253  init() of a new process; a throw of loadTree,
\* or of Object.keys(tree.nodes) on an object without nodes, is not caught in
\* init() or run(): the process ends with status 1
Restart ==
  /\ proc.state = "down"
  /\ LET loaded == loadTree(fs, TREE_PATH)
     IN IF loaded \in {DecodeError, EmptyObject}
        THEN /\ tree' = tree
             /\ proc' = [ NoProcess EXCEPT !.state = "exited" ]
        ELSE /\ tree' = IF loaded = NoTree THEN createTree ELSE loaded
             /\ proc' = [ state |-> "up", running |-> TRUE,
                          offset |-> findLastMarkerOffset(stream) ]
  /\ UNCHANGED <<now, nextId, call, fs, save, stream, pass, ghost>>

\* the agent appends a chunk to the transcript
AgentAppends ==
  /\ Cardinality({ i \in 1..Len(stream) : stream[i].kind = "chunk" }) < MaxAppends
  /\ stream' = Append(stream, Chunk(1 + Cardinality({ i \in 1..Len(stream) :
                                                        stream[i].kind = "chunk" })))
  /\ UNCHANGED <<tree, now, nextId, call, fs, save, proc, pass, ghost>>

\* time passes
Elapse ==
  /\ \E h \in CuratorClock : h > now /\ now' = h
  /\ UNCHANGED <<tree, nextId, call, fs, save, stream, proc, pass, ghost>>

\* curator.js:219-221  run(): init() on an empty directory
InitCurator ==
  /\ tree = createTree
  /\ now = 0
  /\ nextId = 1
  /\ call = NoCall
  /\ FsIdle
  /\ stream = <<>>
  /\ proc = [ state |-> "up", running |-> TRUE, offset |-> 0 ]
  /\ pass = [ p \in Passes |-> IdlePass ]
  /\ ghost = NoGhost

NextCurator ==
  \/ TimerPass
  \/ Shutdown
  \/ \E p \in Passes : ExtractDone(p)
  \/ \E p \in Passes : SummarizeDone(p)
  \/ \E p \in Passes : SummarizeFailed(p)
  \/ \E p \in Passes, saved \in BOOLEAN : Finish(p, saved)
  \/ Crash
  \/ Restart
  \/ AgentAppends
  \/ Elapse

SpecCurator == InitCurator /\ [][NextCurator]_vars

----------------------------------------------------------------------------
(* The compression ladder                                                  *)

LevelIdx(node) == indexOf(levels, node.summary_level)

\* C1: over any sequence of calls no node's ladder index ever decreases, and
\* a compressNode call whose target index is equal to or lower than the
\* node's index fails with the "cannot compress" error and leaves the tree
\* (the node's content, level and updated_at with it) unchanged.
C1_CompressionMonotone ==
  [][ /\ \A id \in DOMAIN tree.nodes :
           id \in DOMAIN tree'.nodes =>
             \/ tree'.nodes[id].summary_level = tree.nodes[id].summary_level
             \/ LevelIdx(tree'.nodes[id]) > LevelIdx(tree.nodes[id])
      /\ \A n \in DOMAIN tree.nodes, c \in Summaries, l \in LevelArgs :
           (/\ call'.id = n /\ call'.level = l
            /\ CompressNodeCall(n, c, l)
            /\ indexOf(levels, l) <= LevelIdx(tree.nodes[n]))
             => (call'.error = ErrInvalidTransition /\ tree' = tree) ]_vars

\* a compressed node was later refused a compression to its own or a lower level
C1_Witness ==
  /\ call.op = "compressNode"
  /\ call.error = ErrInvalidTransition
  /\ call.id \in DOMAIN tree.nodes
  /\ tree.nodes[call.id].summary_level \in {"summary", "oneliner", "tag"}
  /\ tree.nodes[call.id].updated_at < now

----------------------------------------------------------------------------
(* Pruning                                                                 *)

\* the ids a chain of links leads to from the ids of S
RECURSIVE ReachFrom(_, _)
ReachFrom(t, S) ==
  LET next == S \cup UNION { { l.target_id : l \in Range(t.nodes[n].links) } :
                              n \in S \cap DOMAIN t.nodes }
  IN IF next = S THEN S ELSE ReachFrom(t, next)

\* the ids that are on the spine or that a chain of links from the spine leads to
Reachable(t) == ReachFrom(t, Range(t.trunk))

\* the ids that are on the spine or the target of a link of a node of the map
Unreferenced(t, id) ==
  /\ \A i \in 1..Len(t.trunk) : t.trunk[i] # id
  /\ \A n \in DOMAIN t.nodes : \A i \in 1..Len(t.nodes[n].links) :
        t.nodes[n].links[i].target_id # id

Removed == (DOMAIN tree.nodes) \ (DOMAIN tree'.nodes)

\* C2: pruneOrphans removes no spine node and no node that a chain of links
\* from a spine node leads to, whatever the node's age and whatever maxAge.
C2_PruneKeepsReachable ==
  [][ \A m \in MaxAgeArgs :
        PruneOrphansCall(m) => Removed \cap Reachable(tree) = {} ]_vars

\* a prune call kept a node older than maxAge that only a chain of two links
\* (spine node, branch, node) holds
C2_Witness ==
  /\ call.op = "pruneOrphans"
  /\ \E n \in DOMAIN tree.nodes :
        /\ n \in Reachable(tree)
        /\ n \notin Range(tree.trunk)
        /\ \A h \in Range(tree.trunk) \cap DOMAIN tree.nodes :
              \A l \in Range(tree.nodes[h].links) : l.target_id # n
        /\ now - tree.nodes[n].created_at > call.maxAge

----------------------------------------------------------------------------
(* Compaction targets                                                      *)

\* the age a node of the given level must exceed, and the level after it
ThresholdOf(level, th) ==
  CASE level = "full" -> th.summary
    [] level = "summary" -> th.oneliner
    [] level = "oneliner" -> th.tag
NextLevel(level) == levels[indexOf(levels, level) + 2]

\* the spine nodes that are due, in spine order
DueTargets(t, th, at) ==
  LET Due(id) ==
        /\ id \in DOMAIN t.nodes
        /\ t.nodes[id].summary_level \in {"full", "summary", "oneliner"}
        /\ at - t.nodes[id].created_at > ThresholdOf(t.nodes[id].summary_level, th)
      due == SelectSeq(t.trunk, Due)
  IN [ i \in 1..Len(due) |->
         [ id |-> due[i], from |-> t.nodes[due[i]].summary_level,
           to |-> NextLevel(t.nodes[due[i]].summary_level) ] ]

\* C8: getCompactionTargets returns, in spine order, one entry {id, from, to}
\* for each spine node whose age exceeds the threshold of its level, to being
\* the next level of the ladder, and nothing for the other nodes; on the
\* spine [N3(full, 2h), N2(summary, 2d), N1(tag, 10d)] the default thresholds
\* give [{N3, full -> summary}, {N2, summary -> oneliner}].
C8_TargetsAreTheDueSpineNodes ==
  call.op = "getCompactionTargets" =>
    /\ call.targets = DueTargets(tree, Merge(defaults, call.th), call.at)
    /\ \A i \in 1..Len(call.targets) : call.targets[i].id \in Range(tree.trunk)
    /\ (tree = Scenario /\ call.at = 240 /\ call.th = <<>>) =>
          call.targets = << [ id |-> 3, from |-> "full", to |-> "summary" ],
                            [ id |-> 2, from |-> "summary", to |-> "oneliner" ] >>

\* the scenario was scanned with the default thresholds
C8_Witness ==
  /\ call.op = "getCompactionTargets"
  /\ call.th = <<>>
  /\ call.at = 240
  /\ tree = Scenario
  /\ Len(call.targets) = 2

----------------------------------------------------------------------------
(* Atomic save                                                             *)

\* C6: at every instant of saveTree, and after a crash at any of its steps,
\* the canonical path holds what it held when the call began (no file, or a
\* complete snapshot) or the complete new snapshot, never part of a text; once
\* saveTree has returned the canonical path holds the new snapshot and the
\* temporary file is gone.
C6_SnapshotIsWholeAtEveryInstant ==
  /\ fs[TREE_PATH] = NoFile \/ ParseOk(fs[TREE_PATH].data)
  /\ save.pc \in {"open", "write", "rename", "failed"} => fs[TREE_PATH] = save.prev
  /\ (save.pc = "crashed" /\ save.at \in {"open", "write", "rename", "failed"})
        => fs[TREE_PATH] = save.prev
  /\ (save.pc = "done" \/ (save.pc = "crashed" /\ save.at = "done"))
        => /\ fs[TREE_PATH] = File(save.text)
           /\ fs[TREE_PATH \o ".tmp"] = NoFile

\* the process died in the middle of the write of a second, different
\* snapshot: the temporary file holds part of the text, the canonical path
\* the first snapshot
C6_Witness ==
  /\ save.pc = "crashed"
  /\ save.at = "write"
  /\ fs[TREE_PATH \o ".tmp"] # NoFile
  /\ Len(fs[TREE_PATH \o ".tmp"].data) \in 1..(Len(save.text) - 1)
  /\ fs[TREE_PATH] # NoFile
  /\ fs[TREE_PATH] # File(save.text)

----------------------------------------------------------------------------
(* Ingestion                                                               *)

\* C4: ingestion is at least once: no chunk appended to the transcript is
\* skipped. A live process reads only from its offset on, so every chunk
\* that lies before the offset was read by some pass.
C4_NoChunkIsSkipped ==
  proc.state = "up" =>
    \A i \in 1..Len(stream) :
      (i <= proc.offset /\ stream[i].kind = "chunk") => stream[i].ref \in ghost.read

\* C5: after the process died at any point of a pass and was started again,
\* every marker of the transcript names a node of the tree that init()
\* loaded, so what the marker makes the ingestion skip is in the tree.
C5_MarkersNameLoadedNodes ==
  proc.state = "up" =>
    \A i \in 1..Len(stream) :
      stream[i].kind = "marker" => stream[i].ref \in DOMAIN tree.nodes

----------------------------------------------------------------------------
(* Compaction inside a pass                                                *)

\* C7: from the selection of a pass's targets to its last compressNode call
\* no other pass puts a node on the spine or compresses a node: while a pass
\* waits for the summarizer, a step that is not its own leaves the spine and
\* every node's level as they are.
C7_TreeSettledWhileCompacting ==
  [][ \A p \in Passes :
        (pass[p].pc = "summarize" /\ pass'[p] = pass[p] /\ proc'.state = "up")
          => /\ tree'.trunk = tree.trunk
             /\ \A n \in DOMAIN tree.nodes :
                  /\ n \in DOMAIN tree'.nodes
                  /\ tree'.nodes[n].summary_level = tree.nodes[n].summary_level ]_vars

\* C10: when the summarizer fails for a target of a pass, the step leaves the
\* node as it was and the pass goes on with the rest of its targets; and the
\* target is selected again, with the same from and to, by the scan of the
\* next pass: until the node is compressed, the scan returns it in every
\* later state of the process.
C10_FailedTargetIsRetried ==
  [][ /\ \A p \in Passes :
           SummarizeFailed(p) =>
             LET target == Head(pass[p].targets)
                 rest == SkipMissing(Tail(pass[p].targets), tree)
             IN /\ target.id \in DOMAIN tree.nodes
                   => (/\ target.id \in DOMAIN tree'.nodes
                       /\ tree'.nodes[target.id] = tree.nodes[target.id])
                /\ rest # <<>> => (pass'[p].pc = "summarize" /\ pass'[p].targets = rest)
                /\ target \in ghost'.failed
      /\ proc'.state = "up" =>
           \A f \in ghost'.failed :
             \E i \in 1..Len(getCompactionTargets(tree', <<>>, now')) :
               getCompactionTargets(tree', <<>>, now')[i] = f ]_vars

----------------------------------------------------------------------------
(* The transcript seen piece by piece: the marker scan of init()           *)

\* curator.js:18-19  MARKER_SUFFIX is "@@", MARKER_PREFIX is "@@curated::":
\* the prefix begins with the characters of the suffix
AT == "@@"
TAG == "curated::"
NL == "\n"
MARKER_PREFIX == <<AT, TAG>>
MARKER_SUFFIX == <<AT>>

\* curator.js:21-23  makeMarker
makeMarker(nodeId) == MARKER_PREFIX \o <<nodeId>> \o MARKER_SUFFIX

\* curator.js:61  what writeMarker appends
MarkerBytes == <<NL>> \o makeMarker("id") \o <<NL>>

\* a line the agent side appends
AgentLine == <<"msg", NL>>

\* the length a transcript may reach
MaxBytes == 12

\* String.prototype.indexOf(pat, from), positions counted from 1, 0 for -1
indexOfFrom(content, pat, from) ==
  LET hits == { i \in from..(Len(content) - Len(pat) + 1) :
                  SubSeq(content, i, i + Len(pat) - 1) = pat }
  IN IF hits = {} THEN 0 ELSE CHOOSE i \in hits : \A j \in hits : i <= j

\* curator.js:37-50  the loop of findLastMarkerOffset; searchFrom is the
\* position of the next piece to look at, lastMarkerEnd a count of pieces
RECURSIVE ScanMarkers(_, _, _)
ScanMarkers(content, searchFrom, lastMarkerEnd) ==
  LET idx == indexOfFrom(content, MARKER_PREFIX, searchFrom)
      endIdx == indexOfFrom(content, MARKER_SUFFIX, idx + Len(MARKER_PREFIX))
      pastSuffix == endIdx + Len(MARKER_SUFFIX) - 1
      lineEnd == IF pastSuffix < Len(content) /\ content[pastSuffix + 1] = NL
                 THEN pastSuffix + 1 ELSE pastSuffix
  IN IF idx = 0 THEN lastMarkerEnd
     ELSE IF endIdx = 0 THEN lastMarkerEnd
     ELSE ScanMarkers(content, lineEnd + 1, lineEnd)

\* curator.js:29-53  findLastMarkerOffset on the pieces of the file
findLastMarkerOffsetBytes(content) == ScanMarkers(content, 1, 0)

\* transcript.js:118  raw.split('\n').filter(l => l.trim())
RECURSIVE SplitLines(_, _)
SplitLines(raw, line) ==
  IF raw = <<>> THEN (IF line = <<>> THEN <<>> ELSE <<line>>)
  ELSE IF Head(raw) = NL
       THEN (IF line = <<>> THEN <<>> ELSE <<line>>) \o SplitLines(Tail(raw), <<>>)
       ELSE SplitLines(Tail(raw), Append(line, Head(raw)))

\* transcript.js:19  a line that starts with the prefix and ends with "@@"
IsMarkerLine(line) ==
  /\ Len(line) > Len(MARKER_PREFIX)
  /\ SubSeq(line, 1, Len(MARKER_PREFIX)) = MARKER_PREFIX
  /\ line[Len(line)] = AT

\* transcript.js:115-171  the lines parseTranscript keeps
parseBytes(raw) ==
  LET Kept(line) == ~IsMarkerLine(line)
  IN SelectSeq(SplitLines(raw, <<>>), Kept)

\* the agent side appends a line
AgentWrites ==
  /\ Len(stream) + Len(AgentLine) <= MaxBytes
  /\ stream' = stream \o AgentLine
  /\ UNCHANGED <<tree, now, nextId, call, fs, save, proc, pass, ghost>>

\* curator.js:131-151, 186-188  a pass reads from the offset to the end of the
\* file and awaits extractKeyFacts when the text is not empty
ReadBytes ==
  /\ proc.state = "up"
  /\ pass["timer"].pc = "idle"
  /\ Len(stream) > proc.offset
  /\ proc' = [ proc EXCEPT !.offset = Len(stream) ]
  /\ pass' = IF parseBytes(SubSeq(stream, proc.offset + 1, Len(stream))) # <<>>
             THEN [ pass EXCEPT !["timer"].pc = "extract" ]
             ELSE pass
  /\ UNCHANGED <<tree, now, nextId, call, fs, save, stream, ghost>>

\* curator.js:190-196  the facts are back and writeMarker appends the marker;
\* the process may die after the first k pieces reached the file. The marker
\* is complete when all of it but the last newline is in the file.
MarkerWrite(k) ==
  /\ proc.state = "up"
  /\ pass["timer"].pc = "extract"
  /\ Len(stream) + k <= MaxBytes
  /\ stream' = stream \o SubSeq(MarkerBytes, 1, k)
  /\ pass' = [ pass EXCEPT !["timer"].pc = "idle" ]
  /\ proc' = IF k = Len(MarkerBytes) THEN proc ELSE [ proc EXCEPT !.state = "down" ]
  /\ ghost' = IF k >= Len(MarkerBytes) - 1
              THEN [ ghost EXCEPT !.marked = Len(stream') ]
              ELSE ghost
  /\ UNCHANGED <<tree, now, nextId, call, fs, save>>

\* the process dies or is stopped
CrashBytes ==
  /\ proc.state = "up"
  /\ proc' = [ proc EXCEPT !.state = "down" ]
  /\ pass' = [ q \in Passes |-> IdlePass ]
  /\ UNCHANGED <<tree, now, nextId, call, fs, save, stream, ghost>>

\* curator.js:96-97  init() of a new process restores the offset
RestartBytes ==
  /\ proc.state = "down"
  /\ proc' = [ state |-> "up", running |-> TRUE,
               offset |-> findLastMarkerOffsetBytes(stream) ]
  /\ UNCHANGED <<tree, now, nextId, call, fs, save, stream, pass, ghost>>

NextMarker ==
  \/ AgentWrites
  \/ ReadBytes
  \/ \E k \in 1..Len(MarkerBytes) : MarkerWrite(k)
  \/ CrashBytes
  \/ RestartBytes

SpecMarker == InitCurator /\ [][NextMarker]_vars

\* C13: a new process starts with its offset just past the last complete
\* marker of the transcript (its trailing newline included), 0 when there is
\* none, so its first read returns no byte at or before that marker.
C13_OffsetRestoredPastLastMarker ==
  [][ RestartBytes => proc'.offset = ghost.marked ]_vars

\* every marker prefix in the file belongs to a complete marker or is
\* followed by no "@@"
NoTornMarkerInside ==
  \A i \in 1..(Len(stream) - 1) :
    (SubSeq(stream, i, i + 1) = MARKER_PREFIX) =>
       \/ (i + 3 <= Len(stream) /\ SubSeq(stream, i, i + 3) = makeMarker("id"))
       \/ \A j \in (i + 2)..Len(stream) : stream[j] # AT

\* the same, for transcripts in which no torn marker precedes an "@@"
C13_OffsetRestoredWhenNoTornMarkerInside ==
  [][ (RestartBytes /\ NoTornMarkerInside) => proc'.offset = ghost.marked ]_vars

----------------------------------------------------------------------------
(* Starting from a snapshot file that may be damaged                       *)

\* what the snapshot path may hold when a process starts: nothing, the text
\* of a saved tree, a text that ends before the object is closed, or JSON
\* that is no tree
SnapshotFiles ==
  {NoFile, File(EmptyObjectText)}
    \cup { File(SubSeq(Stringify(t), 1, k)) :
             t \in SpineSeeds, k \in 0..Len(Stringify(createTree)) }

InitBoot ==
  /\ tree = createTree
  /\ now = 0
  /\ nextId = 1
  /\ call = NoCall
  /\ fs \in { [ p \in Paths |-> IF p = TREE_PATH THEN f ELSE NoFile ] : f \in SnapshotFiles }
  /\ save = NoSave
  /\ stream = <<>>
  /\ proc = NoProcess
  /\ pass = [ p \in Passes |-> IdlePass ]
  /\ ghost = NoGhost

----------------------------------------------------------------------------
(* The spine                                                               *)

\* C16: the spine changes only by addTrunkNode, which puts the id of the node
\* it creates (depth 0, level full, the content given) at the head and leaves
\* the ids that were on the spine in their order; so after any sequence of
\* calls spine[0] is the node of the most recent addTrunkNode.
C16_HeadIsTheNewestTrunkNode ==
  [][ \/ tree'.trunk = tree.trunk
      \/ \E c \in NewContents :
           /\ AddTrunkNodeCall(c)
           /\ call'.node \notin DOMAIN tree.nodes
           /\ tree'.trunk = <<call'.node>> \o tree.trunk
           /\ tree'.nodes[call'.node].depth = 0
           /\ tree'.nodes[call'.node].summary_level = "full"
           /\ tree'.nodes[call'.node].content = c ]_vars

\* a second addTrunkNode was made after a compression of the first spine node
C16_Witness ==
  /\ call.op = "addTrunkNode"
  /\ Len(tree.trunk) = 2
  /\ tree.trunk[1] = call.node
  /\ tree.nodes[tree.trunk[2]].summary_level # "full"

\* C17: addBranchNode with a parent id that is no key of the node map fails
\* with the not-found error and leaves the node map, every node's links and
\* the spine as they were.
C17_AbsentParentLeavesTreeUntouched ==
  [][ \A p \in ParentArgs, c \in NewContents, l \in Labels :
        (p \notin DOMAIN tree.nodes /\ AddBranchNodeCall(p, c, l))
          => (call'.error = ErrNotFound /\ tree' = tree) ]_vars

\* the same, for parent ids that are not a name every object inherits
C17_AbsentOwnParentLeavesTreeUntouched ==
  [][ \A p \in ParentArgs \ Inherited, c \in NewContents, l \in Labels :
        (p \notin DOMAIN tree.nodes /\ AddBranchNodeCall(p, c, l))
          => (call'.error = ErrNotFound /\ tree' = tree) ]_vars

----------------------------------------------------------------------------
(* Pruning with maxAge = 0                                                 *)

----------------------------------------------------------------------------
(* The transcript is append-only                                           *)

IsPrefix(a, b) == Len(a) <= Len(b) /\ SubSeq(b, 1, Len(a)) = a

----------------------------------------------------------------------------
(* Reads of the transcript within one process run                          *)

\* what pass p is handed by a read made at the current offset: the text of
\* the transcript from the offset to its end, and nothing when that is empty
Delivered(p) ==
  LET expect == parseTranscript(SubSeq(stream, proc.offset + 1, Len(stream)))
  IN /\ proc'.offset = Len(stream)
     /\ IF expect # <<>>
        THEN pass'[p].pc = "extract" /\ pass'[p].delta = expect
        ELSE pass'[p].pc # "extract"

\* C14: while the process runs, a read hands over exactly the range from the
\* in-memory offset to the end of the transcript and moves the offset to that
\* end, no other step moves the offset, and the offset never decreases: the
\* ranges read are contiguous and do not overlap.
C14_ReadsAreContiguous ==
  [][ (proc.state = "up" /\ proc'.state = "up") =>
        /\ proc.offset <= proc'.offset
        /\ proc.offset <= Len(stream)
        /\ TimerPass => Delivered("timer")
        /\ Shutdown => Delivered("shutdown")
        /\ ~(TimerPass \/ Shutdown) => proc'.offset = proc.offset ]_vars

\* in one run a second read has handed over the chunk that follows the
\* marker of the first
C14_Witness ==
  /\ ghost.crashes = 0
  /\ Len(stream) = 3
  /\ stream[1].kind = "chunk" /\ stream[2].kind = "marker" /\ stream[3].kind = "chunk"
  /\ proc.offset = 3
  /\ \E p \in Passes : pass[p].pc = "extract" /\ pass[p].delta = <<stream[3].ref>>

----------------------------------------------------------------------------
(* Write-before-delete                                                     *)

\* the nodes of t from which a chain of links leads to id
Ancestors(t, id) ==
  { a \in DOMAIN t.nodes \ {id} : id \in ReachFrom(t, {a}) }

\* C19: pruneOrphans removes a node only when its content has been absorbed
\* into the summary of an ancestor: at the least, some node from which links
\* lead to the removed node holds a summary in place of its full content.
C19_RemovedContentWasAbsorbed ==
  [][ \A m \in MaxAgeArgs :
        PruneOrphansCall(m) =>
          \A n \in Removed :
            \E a \in Ancestors(tree, n) : tree.nodes[a].summary_level # "full" ]_vars

----------------------------------------------------------------------------
(* tree.js:145-204  emitSkillMd                                            *)

\* tree.js:147
charsPerToken == 4

\* tree.js:184
Truncated == "- ... (older history truncated)"

\* tree.js:14-16  an id is 16 hexadecimal characters
IdText(id) == "000000000000000" \o ToString(id)

\* tree.js:168  a line of the topic index of the head
TopicLine(link) == "- @@seek(id=" \o IdText(link.target_id) \o ")@@ " \o link.label

\* the line of a history node carries the time of the call
EntryLineStamped(node) ==
  "- [" \o node.summary_level \o "] " \o node.content \o " " \o ToString(now)

\* tree.js:182  the line of a history node
EntryLine(node) == "- [" \o node.summary_level \o "] " \o node.content

\* tree.js:192  the line of a link of a history node
BranchLine(link) == "  - @@seek(id=" \o IdText(link.target_id) \o ")@@ " \o link.label

\* tree.js:169  what the topic lines add to charCount
RECURSIVE TopicChars(_)
TopicChars(links) ==
  IF links = <<>> THEN 0 ELSE 40 + Len(Head(links).label) + TopicChars(Tail(links))

\* only the first link of the head gets a topic line
HeadPartFirstTopicOnly(t) ==
  IF t.trunk = <<>> \/ Head(t.trunk) \notin DOMAIN t.nodes
  THEN [ lines |-> <<>>, chars |-> 0 ]
  ELSE LET root == t.nodes[Head(t.trunk)]
       IN [ lines |-> <<"## current session", "", root.content, "">> \o
                      (IF root.links = <<>> THEN <<>>
                       ELSE <<"### topics", TopicLine(root.links[1]), "">>),
            chars |-> Len(root.content) + 30 + TopicChars(root.links) ]

\* tree.js:154-174  the current session: lines pushed and charCount after them
HeadPart(t) ==
  IF t.trunk = <<>> \/ Head(t.trunk) \notin DOMAIN t.nodes
  THEN [ lines |-> <<>>, chars |-> 0 ]
  ELSE LET root == t.nodes[Head(t.trunk)]
       IN [ lines |-> <<"## current session", "", root.content, "">> \o
                      (IF root.links = <<>> THEN <<>>
                       ELSE <<"### topics">> \o
                            [ i \in 1..Len(root.links) |-> TopicLine(root.links[i]) ] \o
                            <<"">>),
            chars |-> Len(root.content) + 30 + TopicChars(root.links) ]

\* tree.js:191-196  the loop over the links of a history node: the first link
\* whose line does not fit ends the loop
RECURSIVE BranchLoop(_, _, _)
BranchLoop(links, acc, maxChars) ==
  IF links = <<>> THEN acc
  ELSE LET branchEntry == BranchLine(Head(links))
       IN IF acc.chars + Len(branchEntry) > maxChars THEN acc
          ELSE BranchLoop(Tail(links),
                          [ lines |-> Append(acc.lines, branchEntry),
                            chars |-> acc.chars + Len(branchEntry) ],
                          maxChars)

\* tree.js:178-197  the loop over trunk[1..]: a node line that does not fit is
\* replaced by the truncation line and ends the loop
RECURSIVE HistoryLoop(_, _, _, _)
HistoryLoop(t, i, acc, maxChars) ==
  IF i > Len(t.trunk) THEN acc
  ELSE IF t.trunk[i] \notin DOMAIN t.nodes THEN HistoryLoop(t, i + 1, acc, maxChars)
  ELSE LET node == t.nodes[t.trunk[i]]
           entry == EntryLine(node)
       IN IF acc.chars + Len(entry) > maxChars
          THEN [ acc EXCEPT !.lines = Append(@, Truncated) ]
          ELSE HistoryLoop(t, i + 1,
                           BranchLoop(node.links,
                                      [ lines |-> Append(acc.lines, entry),
                                        chars |-> acc.chars + Len(entry) ],
                                      maxChars),
                           maxChars)

\* tree.js:175-199  the lines of the recent history
HistoryPart(t, chars, maxChars) ==
  HistoryLoop(t, 2, [ lines |-> <<>>, chars |-> chars ], maxChars).lines

\* nothing is pushed for a tree without spine
SkillMdLinesBare(t, maxTokenEstimate) ==
  IF t.trunk = <<>> THEN <<>>
  ELSE <<"# memory", "">> \o HeadPart(t).lines

\* tree.js:145-201  the lines emitSkillMd pushes
SkillMdLines(t, maxTokenEstimate) ==
  LET maxChars == maxTokenEstimate * charsPerToken
      head == HeadPart(t)
  IN <<"# memory", "">> \o head.lines \o
     (IF Len(t.trunk) > 1
      THEN <<"## recent history", "">> \o HistoryPart(t, head.chars, maxChars) \o <<"">>
      ELSE <<>>)

\* lines.join('\n')
RECURSIVE Join(_)
Join(lines) ==
  IF lines = <<>> THEN ""
  ELSE IF Len(lines) = 1 THEN lines[1]
  ELSE lines[1] \o "\n" \o Join(Tail(lines))

\* tree.js:145-204  emitSkillMd
emitSkillMd(t, maxTokenEstimate) == Join(SkillMdLines(t, maxTokenEstimate))

\* the longest spine rendered
MaxRender == 3

RenderContents == {"c", "cccccccccccccccccccccccccccccccccccccccccccccccccccccccccccc"}

\* a spine of k nodes, id k at the head, node i with content cs[i] and, when
\* linked[i], one link to a branch node k + i
RenderTree(k, cs, linked) ==
  [ nodes |-> [ n \in (1..k) \cup { k + i : i \in { j \in 1..k : linked[j] } } |->
                  IF n <= k
                  THEN [ SeedNode(n, 0, "full", 0,
                                  IF linked[n] THEN <<Link(k + n)>> ELSE <<>>)
                           EXCEPT !.content = cs[n] ]
                  ELSE SeedNode(n, 0, "full", 1, <<>>) ],
    trunk |-> [ i \in 1..k |-> k + 1 - i ],
    version |-> 1 ]

SingleTopicTrees ==
  { RenderTree(k, cs, linked) :
      <<k, cs, linked>> \in
        { q \in (0..MaxRender) \X [1..MaxRender -> RenderContents]
                  \X [1..MaxRender -> BOOLEAN] :
            \A i \in 1..MaxRender :
               i > q[1] => (q[2][i] = "c" /\ ~q[3][i]) } }

\* the head gets a second link, to a branch node of its own
WithSecondTopic(t) ==
  LET k == Len(t.trunk)
      other == 2 * k + 1
  IN [ t EXCEPT !.nodes = Put([ @ EXCEPT ![k].links = Append(@, [ target_id |-> other,
                                                                   label |-> "other" ]) ],
                              other, SeedNode(other, 0, "full", 1, <<>>)) ]

RenderTrees ==
  SingleTopicTrees \cup
  { WithSecondTopic(t) : t \in { u \in SingleTopicTrees :
                                   u.trunk # <<>> /\ u.nodes[Head(u.trunk)].links # <<>> } }

MaxTokenArgs == {8, 12, 14, 25}

InitRender ==
  /\ tree \in RenderTrees
  /\ now = 0
  /\ nextId = 2 + 2 * Len(tree.trunk)
  /\ call = NoCall
  /\ FsIdle
  /\ NoCurator

EmitSkillMdCall(maxTokenEstimate) ==
  /\ call' = [ NoCall EXCEPT !.op = "emitSkillMd", !.maxTokens = maxTokenEstimate,
                             !.lines = SkillMdLines(tree, maxTokenEstimate),
                             !.content = emitSkillMd(tree, maxTokenEstimate) ]
  /\ UNCHANGED <<tree, now, nextId, fs, save, stream, proc, pass, ghost>>

NextRender ==
  \/ \E m \in MaxTokenArgs : EmitSkillMdCall(m)
  \/ Tick

SpecRender == InitRender /\ [][NextRender]_vars

\* the sum of the lengths of the lines of a sequence
RECURSIVE SumLen(_)
SumLen(lines) == IF lines = <<>> THEN 0 ELSE Len(Head(lines)) + SumLen(Tail(lines))

\* the total content of the spine
TotalContent(t) == SumLen([ i \in 1..Len(t.trunk) |-> t.nodes[t.trunk[i]].content ])

\* the section lines and blank lines of the output
Structural == {"# memory", "", "## current session", "### topics", "## recent history"}

Markers(lines) == Cardinality({ i \in 1..Len(lines) : lines[i] = Truncated })

\* the lines of the output that are entries: content, topic, node and link lines
Entries(lines) == LET IsEntry(l) == l \notin Structural IN SelectSeq(lines, IsEntry)

\* the entry lines a tree can give rise to, in the order of the output
HeadEntries(t) ==
  IF t.trunk = <<>> THEN <<>>
  ELSE LET root == t.nodes[Head(t.trunk)]
       IN <<root.content>> \o [ i \in 1..Len(root.links) |-> TopicLine(root.links[i]) ]

RECURSIVE HistoryEntries(_, _)
HistoryEntries(t, i) ==
  IF i > Len(t.trunk) THEN <<>>
  ELSE LET node == t.nodes[t.trunk[i]]
       IN <<EntryLine(node)>> \o [ j \in 1..Len(node.links) |-> BranchLine(node.links[j]) ]
            \o HistoryEntries(t, i + 1)

LongestEntry(t) ==
  LET lens == { Len(l) : l \in Range(HeadEntries(t) \o HistoryEntries(t, 2)) \cup {Truncated} }
  IN CHOOSE n \in lens : \A k \in lens : k <= n

\* the lines between the history heading and the closing blank line
HistoryOf(t, lines) ==
  LET first == 2 + Len(HeadPart(t).lines) + 3
  IN SubSeq(lines, first, Len(lines) - 1)

\* C11 as stated: for every tree and every budget B = 4 x maxTokenEstimate
\* smaller than the total content, the output holds exactly one truncation
\* marker and its entries take at most B characters plus one entry.
C11_OneMarkerWithinBudget ==
  [][ \A m \in MaxTokenArgs :
        (EmitSkillMdCall(m) /\ m * charsPerToken < TotalContent(tree)) =>
          /\ Markers(call'.lines) = 1
          /\ SumLen(Entries(call'.lines)) <= m * charsPerToken + LongestEntry(tree) ]_vars

\* the part of C11 that the history loop ensures: for every tree whose spine
\* has at least two nodes and every budget
\* B = 4 x maxTokenEstimate smaller than the total content of the spine, the
\* output holds exactly one truncation marker, as the last line of the
\* history, and when history lines precede the marker, the count the head
\* starts the history with (content + 30, 40 + label per topic) plus their
\* lengths is at most B; the head section itself is emitted whatever B.
C11_OneMarkerWhenHistoryExists ==
  [][ \A m \in MaxTokenArgs :
        (EmitSkillMdCall(m) /\ Len(tree.trunk) >= 2
                            /\ m * charsPerToken < TotalContent(tree)) =>
          LET history == HistoryOf(tree, call'.lines)
          IN /\ Markers(call'.lines) = 1
             /\ history # <<>>
             /\ history[Len(history)] = Truncated
             /\ Len(history) > 1 =>
                  HeadPart(tree).chars + SumLen(SubSeq(history, 1, Len(history) - 1))
                    <= m * charsPerToken
             /\ SubSeq(call'.lines, 3, 2 + Len(HeadPart(tree).lines)) = HeadPart(tree).lines ]_vars

\* what the history holds when every entry is emitted whole until the first
\* one that does not fit, which the truncation marker replaces
RECURSIVE UpToFirstOverflow(_, _, _)
UpToFirstOverflow(entries, chars, maxChars) ==
  IF entries = <<>> THEN <<>>
  ELSE IF chars + Len(Head(entries)) > maxChars THEN <<Truncated>>
  ELSE <<Head(entries)>> \o
       UpToFirstOverflow(Tail(entries), chars + Len(Head(entries)), maxChars)

\* C12: every entry of the history is emitted whole or not at all, and the
\* first entry (node line or link line of a history node) that would exceed
\* the budget is replaced by one truncation marker, after which no entry
\* follows.
C12_FirstOverflowEndsTheHistory ==
  [][ \A m \in MaxTokenArgs :
        (EmitSkillMdCall(m) /\ Len(tree.trunk) >= 2) =>
          HistoryOf(tree, call'.lines) =
            UpToFirstOverflow(HistoryEntries(tree, 2), HeadPart(tree).chars,
                              m * charsPerToken) ]_vars

\* the same, for trees whose history nodes have no link
C12_FirstOverflowingNodeEndsTheHistory ==
  [][ \A m \in MaxTokenArgs :
        (EmitSkillMdCall(m) /\ Len(tree.trunk) >= 2
           /\ \A i \in 2..Len(tree.trunk) : tree.nodes[tree.trunk[i]].links = <<>>) =>
          HistoryOf(tree, call'.lines) =
            UpToFirstOverflow(HistoryEntries(tree, 2), HeadPart(tree).chars,
                              m * charsPerToken) ]_vars

----------------------------------------------------------------------------
(* The whole tree interface                                                *)

\* callers that use every operation of tree.js on a tree they build
NextApi ==
  \/ NextBranch
  \/ \E n \in KnownIds, c \in Summaries : CompressNodeCall(n, c, "summary")
  \/ GetCompactionTargetsCall(<<>>)
  \/ \E m \in MaxTokenArgs : EmitSkillMdCall(m)

SpecApi == Init /\ [][NextApi]_vars

\* C21: only pruneOrphans removes a node from the node map (addTrunkNode,
\* addBranchNode, compressNode, getCompactionTargets and emitSkillMd never
\* do), and no operation, pruneOrphans included, removes an id from the spine.
C21_OnlyThePrunerDestroys ==
  [][ /\ \/ DOMAIN tree.nodes \subseteq DOMAIN tree'.nodes
         \/ \E m \in MaxAgeArgs : PruneOrphansCall(m)
      /\ \/ tree'.trunk = tree.trunk
         \/ /\ Len(tree'.trunk) >= Len(tree.trunk)
            /\ SubSeq(tree'.trunk, Len(tree'.trunk) - Len(tree.trunk) + 1, Len(tree'.trunk))
                 = tree.trunk ]_vars

\* a prune call removed a node of a tree that has a spine, and the spine
\* node is still there
C21_Witness ==
  /\ call.op = "pruneOrphans"
  /\ call.pruned # <<>>
  /\ tree.trunk # <<>>
  /\ \A i \in 1..Len(tree.trunk) : tree.trunk[i] \in DOMAIN tree.nodes

----------------------------------------------------------------------------
(* The output of emitSkillMd                                               *)

Header == "# memory"

C23_HeadAndTopicsInFull ==
  (call.op = "emitSkillMd" /\ tree.trunk # <<>>) =>
    LET root == tree.nodes[Head(tree.trunk)]
        n == Len(root.links)
    IN /\ SubSeq(call.lines, 3, 6) = <<"## current session", "", root.content, "">>
       /\ n > 0 =>
            /\ Len(call.lines) >= 8 + n
            /\ call.lines[7] = "### topics"
            /\ \A i \in 1..n : call.lines[7 + i] = TopicLine(root.links[i])
            /\ call.lines[8 + n] = ""
       /\ n = 0 => \A i \in 1..Len(call.lines) : call.lines[i] # "### topics"

\* the smallest budget was given for a head with long content and two links
C23_Witness ==
  /\ call.op = "emitSkillMd"
  /\ call.maxTokens = 8
  /\ tree.trunk # <<>>
  /\ Len(tree.nodes[Head(tree.trunk)].links) = 2
  /\ Len(tree.nodes[Head(tree.trunk)].content) > 8 * charsPerToken

----------------------------------------------------------------------------
(* addBranchNode on trees that already have branches and links             *)

\* spines of 1..MaxSpine nodes whose nodes may have a topic each, the head two
GrowTrees ==
  LET single == { RenderTree(k, [ i \in 1..k |-> "c" ], linked) :
                    <<k, linked>> \in
                      { q \in (1..MaxSpine) \X [1..MaxSpine -> BOOLEAN] :
                          \A i \in 1..MaxSpine : i > q[1] => ~q[2][i] } }
  IN single \cup { WithSecondTopic(t) : t \in { u \in single : u.nodes[Head(u.trunk)].links # <<>> } }

\* an id above every id of GrowTrees
FirstNewId == 2 * MaxSpine + 2

GrowLabels == {"later"}

InitGrow ==
  /\ tree \in GrowTrees
  /\ now = 0
  /\ nextId = FirstNewId
  /\ call = NoCall
  /\ FsIdle
  /\ NoCurator

GrowBranchCall(parentId, content, label) ==
  /\ nextId < FirstNewId + MaxNew
  /\ AddBranchNodeApply(parentId, content, label)

NextGrow ==
  \/ \E p \in ParentArgs, c \in NewContents, l \in GrowLabels : GrowBranchCall(p, c, l)
  \/ Tick

SpecGrow == InitGrow /\ [][NextGrow]_vars

\* C29: an addBranchNode that returns adds one node, of depth one more than
\* the parent's and of level full, with the given content and no links, puts
\* one link to it with the given label at the end of the parent's list, and
\* leaves the spine and every node other than the parent as they were.
C29_BranchAddsOneNodeAndOneLink ==
  [][ \A p \in ParentArgs, c \in NewContents, l \in GrowLabels :
        (GrowBranchCall(p, c, l) /\ call'.error = NoError) =>
          LET n == call'.node
          IN /\ p \in DOMAIN tree.nodes
             /\ n \notin DOMAIN tree.nodes
             /\ DOMAIN tree'.nodes = DOMAIN tree.nodes \cup {n}
             /\ tree'.nodes[n].id = n
             /\ tree'.nodes[n].depth = Plus1(tree.nodes[p].depth)
             /\ tree.nodes[p].depth >= 0 => tree'.nodes[n].depth = tree.nodes[p].depth + 1
             /\ tree'.nodes[n].summary_level = "full"
             /\ tree'.nodes[n].content = c
             /\ tree'.nodes[n].links = <<>>
             /\ tree'.nodes[p].links
                  = Append(tree.nodes[p].links, [ target_id |-> n, label |-> l ])
             /\ tree'.trunk = tree.trunk
             /\ \A k \in DOMAIN tree.nodes \ {p} : tree'.nodes[k] = tree.nodes[k] ]_vars

\* a second branch was added under a branch node: the new node is at depth 2
\* and its link is the second of the parent's list
C29_Witness ==
  /\ call.op = "addBranchNode"
  /\ call.error = NoError
  /\ tree.nodes[call.node].depth = 2
  /\ Len(tree.nodes[call.id].links) = 2
  /\ tree.nodes[call.id].links[2].target_id = call.node

----------------------------------------------------------------------------
(* Save and load                                                           *)

\* one process builds a tree, with any parent names, summarises the head of
\* the spine, and saves the tree again and again; a save may fail at any of
\* its system calls
NextRoundTrip ==
  \/ \E c \in NewContents : SaveAlive /\ AddTrunkNodeCall(c)
  \/ \E p \in ParentArgs, c \in NewContents, l \in Labels :
        SaveAlive /\ AddBranchNodeCall(p, c, l)
  \/ \E c \in Summaries :
        SaveAlive /\ tree.trunk # <<>> /\ CompressNodeCall(Head(tree.trunk), c, "summary")
  \/ SaveTreeCall
  \/ SaveTreeOpen
  \/ SaveTreeWrite
  \/ SaveTreeRename
  \/ SaveTreeThrow

SpecRoundTrip == Init /\ [][NextRoundTrip]_vars

\* the same node set, spine, links, levels and contents
SameStructure(a, b) ==
  /\ DOMAIN a.nodes = DOMAIN b.nodes
  /\ a.trunk = b.trunk
  /\ \A k \in DOMAIN a.nodes :
       /\ a.nodes[k].links = b.nodes[k].links
       /\ a.nodes[k].summary_level = b.nodes[k].summary_level
       /\ a.nodes[k].content = b.nodes[k].content

\* C25: when saveTree returns, loadTree of the path returns a tree with the
\* node set, the spine order, the links in their order, the levels and the
\* contents of the saved tree; and what loadTree returns changes at no other
\* step, so that after any sequence of saves, failed or not, it returns the
\* tree of the last save that returned.
C25_LoadReturnsTheLastSavedTree ==
  [][ /\ (save.pc = "rename" /\ save'.pc = "done") =>
           LET loaded == loadTree(fs', TREE_PATH)
           IN /\ loaded \notin {NoTree, DecodeError}
              /\ SameStructure(loaded, tree)
      /\ loadTree(fs', TREE_PATH) # loadTree(fs, TREE_PATH) =>
           (save.pc = "rename" /\ save'.pc = "done") ]_vars

\* a second save has returned, of a tree with a link, over a snapshot of
\* another tree
C25_Witness ==
  /\ save.pc = "done"
  /\ save.prev # NoFile
  /\ save.prev # fs[TREE_PATH]
  /\ \E k \in DOMAIN tree.nodes : tree.nodes[k].links # <<>>
  /\ SameStructure(loadTree(fs, TREE_PATH), tree)

----------------------------------------------------------------------------
(* The writes at the end of a curation pass                                *)

\* tree.js:145, 206  the budget of the briefing when none is given
DefaultMaxTokens == 4000

\* how a write of a file through its temporary path ends: it returns, or
\* writeFileSync throws before anything is written
Outcomes == {"ok", "throws"}

\* tree.js:131-135, 206-212  writeFileSync of the temporary path, renameSync
WriteThenRename(files, filepath, data, outcome) ==
  LET tmpPath == filepath \o ".tmp"
  IN IF outcome = "ok"
     THEN Rename([ files EXCEPT ![tmpPath] = File(data) ], tmpPath, filepath)
     ELSE files

\* what the two catch blocks have logged
Logged(written, saved) ==
  (IF written = "ok" THEN "" ELSE "failed to write skill.md;") \o
  (IF saved = "ok" THEN "" ELSE "failed to save tree;")

\* the throw of a write is not caught: it ends curate(), run() and the process
FinishIOUncaught(p, written, saved) ==
  /\ proc.state = "up"
  /\ pass[p].pc = "save"
  /\ fs' = WriteThenRename(WriteThenRename(fs, SKILL_MD_PATH,
                                           emitSkillMd(tree, DefaultMaxTokens), written),
                           TREE_PATH, Stringify(tree), saved)
  /\ call' = [ NoCall EXCEPT !.op = "curate", !.content = p, !.error = Logged(written, saved) ]
  /\ IF p = "shutdown" \/ Logged(written, saved) # ""
     THEN /\ proc' = [ proc EXCEPT !.state = "down" ]
          /\ pass' = [ q \in Passes |-> IdlePass ]
          /\ ghost' = [ ghost EXCEPT !.failed = {} ]
     ELSE /\ pass' = [ pass EXCEPT ![p] = IdlePass ]
          /\ UNCHANGED <<proc, ghost>>
  /\ UNCHANGED <<tree, now, nextId, save, stream>>

\* curator.js:209-215, 112-128, 231-233  doWriteSkillMd and doSaveTree with
\* the outcome of each write; a throw is caught and logged, and curate()
\* returns; the pass of shutdown() then ends the process
FinishIO(p, written, saved) ==
  /\ proc.state = "up"
  /\ pass[p].pc = "save"
  /\ fs' = WriteThenRename(WriteThenRename(fs, SKILL_MD_PATH,
                                           emitSkillMd(tree, DefaultMaxTokens), written),
                           TREE_PATH, Stringify(tree), saved)
  /\ call' = [ NoCall EXCEPT !.op = "curate", !.content = p, !.error = Logged(written, saved) ]
  /\ IF p = "shutdown"
     THEN /\ proc' = [ proc EXCEPT !.state = "down" ]
          /\ pass' = [ q \in Passes |-> IdlePass ]
          /\ ghost' = [ ghost EXCEPT !.failed = {} ]
     ELSE /\ pass' = [ pass EXCEPT ![p] = IdlePass ]
          /\ UNCHANGED <<proc, ghost>>
  /\ UNCHANGED <<tree, now, nextId, save, stream>>

\* curator.js:81-110  init() on an empty directory has written the briefing of
\* the empty tree, or has failed to
InitCuratorIO ==
  /\ tree = createTree
  /\ now = 0
  /\ nextId = 1
  /\ call = NoCall
  /\ save = NoSave
  /\ \E written \in Outcomes :
       fs = WriteThenRename([ p \in Paths |-> NoFile ], SKILL_MD_PATH,
                            emitSkillMd(createTree, DefaultMaxTokens), written)
  /\ stream = <<>>
  /\ proc = [ state |-> "up", running |-> TRUE, offset |-> 0 ]
  /\ pass = [ p \in Passes |-> IdlePass ]
  /\ ghost = NoGhost

NextCuratorIO ==
  \/ TimerPass
  \/ Shutdown
  \/ \E p \in Passes : ExtractDone(p)
  \/ \E p \in Passes : SummarizeDone(p)
  \/ \E p \in Passes : SummarizeFailed(p)
  \/ \E p \in Passes, written \in Outcomes, saved \in Outcomes : FinishIO(p, written, saved)
  \/ AgentAppends
  \/ Elapse

SpecCuratorIO == InitCuratorIO /\ [][NextCuratorIO]_vars

----------------------------------------------------------------------------
(* Shutdown                                                                *)

\* one process from its start to its exit
NextRun ==
  \/ TimerPass
  \/ Shutdown
  \/ \E p \in Passes : ExtractDone(p)
  \/ \E p \in Passes : SummarizeDone(p)
  \/ \E p \in Passes : SummarizeFailed(p)
  \/ \E p \in Passes, saved \in BOOLEAN : Finish(p, saved)
  \/ AgentAppends
  \/ Elapse

\* every call the passes wait for returns or throws: the calls of llm.js have
\* timeouts (llm.js:49, 86), and the last lines of curate() have no await
SpecRun ==
  /\ InitCurator
  /\ [][NextRun]_vars
  /\ WF_vars(\E p \in Passes : ExtractDone(p))
  /\ WF_vars(\E p \in Passes : SummarizeDone(p) \/ SummarizeFailed(p))
  /\ WF_vars(\E p \in Passes, saved \in BOOLEAN : Finish(p, saved))

\* the process has had a signal
Signalled == proc.state = "up" /\ ~proc.running

----------------------------------------------------------------------------
(* Two processes that save to the same path                                *)

Writers == {1, 2}

\* the tree each writer saves: a spine of one node, and a spine of two
WriterTree(w) ==
  SpineTree(w, [ i \in 1..MaxSpine |-> 0 ], [ i \in 1..MaxSpine |-> "full" ], FALSE)

\* what a position of a file holds that was never written
Hole == [ key |-> "", value |-> <<>> ]

\* write(fd) of one part at the offset of the writer's descriptor
WriteAt(data, i, part) ==
  [ j \in 1..(IF i > Len(data) THEN i ELSE Len(data)) |->
      IF j = i THEN part ELSE IF j <= Len(data) THEN data[j] ELSE Hole ]

\* tree.js:131-135  one saveTree call per writer; `path` is where the file of
\* the writer's open descriptor is now, `done` the parts written through it
NoWriter == [ pc |-> "idle", path |-> "", done |-> 0 ]

InitWriters ==
  /\ tree = createTree
  /\ now = 0
  /\ nextId = 1
  /\ call = NoCall
  /\ fs \in { [ p \in Paths |-> IF p = TREE_PATH THEN f ELSE NoFile ] :
                f \in {NoFile, File(Stringify(createTree))} }
  /\ save = [ w \in Writers |-> NoWriter ]
  /\ NoCurator

\* tree.js:133  writeFileSync opens the temporary path: the file is created,
\* or the file that is there is emptied
WriterOpen(w) ==
  /\ save[w].pc = "idle"
  /\ fs' = [ fs EXCEPT ![SaveWritePath(TREE_PATH)] = File(<<>>) ]
  /\ save' = [ save EXCEPT ![w] = [ pc |-> "write", path |-> SaveWritePath(TREE_PATH),
                                    done |-> 0 ] ]
  /\ UNCHANGED <<tree, now, nextId, call, stream, proc, pass, ghost>>

\* tree.js:133  writeFileSync writes the next part through its descriptor
WriterWrite(w) ==
  /\ save[w].pc = "write"
  /\ LET text == Stringify(WriterTree(w))
         i == save[w].done + 1
     IN /\ fs' = [ fs EXCEPT ![save[w].path] = File(WriteAt(@.data, i, text[i])) ]
        /\ save' = [ save EXCEPT ![w].done = i,
                                 ![w].pc = IF i = Len(text) THEN "rename" ELSE "write" ]
  /\ UNCHANGED <<tree, now, nextId, call, stream, proc, pass, ghost>>

\* tree.js:134  renameSync: the file of the temporary path, whoever wrote it,
\* becomes the file of the path, and the descriptors open on it follow it;
\* when the temporary path is gone renameSync throws
WriterRename(w) ==
  /\ save[w].pc = "rename"
  /\ IF fs[SaveWritePath(TREE_PATH)] = NoFile
     THEN /\ save' = [ save EXCEPT ![w].pc = "failed" ]
          /\ UNCHANGED <<fs, call>>
     ELSE /\ fs' = Rename(fs, SaveWritePath(TREE_PATH), TREE_PATH)
          /\ save' = [ v \in Writers |->
                         IF v = w THEN [ save[v] EXCEPT !.pc = "done" ]
                         ELSE IF save[v].pc = "write" /\ save[v].path = SaveWritePath(TREE_PATH)
                         THEN [ save[v] EXCEPT !.path = TREE_PATH ]
                         ELSE save[v] ]
          /\ call' = [ NoCall EXCEPT !.op = "saveTree", !.id = w ]
  /\ UNCHANGED <<tree, now, nextId, stream, proc, pass, ghost>>

NextWriters ==
  \/ \E w \in Writers : WriterOpen(w)
  \/ \E w \in Writers : WriterWrite(w)
  \/ \E w \in Writers : WriterRename(w)

SpecWriters == InitWriters /\ [][NextWriters]_vars

\* the complete texts the path may hold: what was there, or a writer's
WholeSnapshots ==
  { File(Stringify(createTree)) } \cup { File(Stringify(WriterTree(w))) : w \in Writers }

\* C28: with two writers of the same path, under every interleaving of their
\* steps, the path never holds part of a text or a mixture of texts, and when
\* both saves have ended it holds the whole text of the writer whose rename
\* was the last to succeed.
C28_LastRenameWins ==
  /\ fs[TREE_PATH] = NoFile \/ fs[TREE_PATH] \in WholeSnapshots
  /\ (call.op = "saveTree" /\ \A w \in Writers : save[w].pc \in {"done", "failed"}) =>
       fs[TREE_PATH] = File(Stringify(WriterTree(call.id)))

----------------------------------------------------------------------------
(* supervisor.sh                                                           *)

MaxSessions == 2

\* the statuses `claude -p` may end with
ExitCodes == {0, 1, 137}

\* supervisor.sh:42-57  the status of curate(): that of the pipeline of the
\* curator script under pipefail, or 0 when the script is not there
CurateStatuses(script) == IF script THEN {0, 1} ELSE {0}

\* supervisor.sh:10-19  the shell after its first lines: errexit is on
InitSupervisor ==
  /\ tree = createTree
  /\ now = 0
  /\ nextId = 1
  /\ call = NoCall
  /\ FsIdle
  /\ stream = <<>>
  /\ pass = [ p \in Passes |-> IdlePass ]
  /\ \E script \in BOOLEAN :
       proc = [ pc |-> "boot", errexit |-> TRUE, SESSION_COUNT |-> 0, EXIT_CODE |-> 0,
                pending |-> FALSE, script |-> script, status |-> 0 ]
  /\ ghost = [ cleanups |-> 0 ]

\* the shell leaves with a status
Exit(status) == [ proc EXCEPT !.pc = "exited", !.status = status ]

\* supervisor.sh:28-34  cleanup(): one curation, then exit 0; under errexit a
\* failing curation ends the shell before `exit 0` is reached
cleanup(final) ==
  /\ proc' = Exit(IF final # 0 /\ proc.errexit THEN final ELSE 0)
  /\ ghost' = [ ghost EXCEPT !.cleanups = @ + 1 ]

\* supervisor.sh:35  SIGTERM or SIGINT arrives; the trap runs when the command
\* in the foreground has ended
Signal ==
  /\ proc.pc # "exited"
  /\ ~proc.pending
  /\ proc' = [ proc EXCEPT !.pending = TRUE ]
  /\ UNCHANGED <<tree, now, nextId, call, fs, save, stream, pass, ghost>>

\* supervisor.sh:61-76, 84-87  boot: the curation before the launch; its
\* failure ends the shell (set -e, line 10); then set +e
boot(status, final) ==
  /\ proc.pc = "boot"
  /\ proc.SESSION_COUNT < MaxSessions
  /\ status \in CurateStatuses(proc.script)
  /\ final \in CurateStatuses(proc.script)
  /\ IF proc.pending
     THEN cleanup(final)
     ELSE /\ proc' = IF status # 0 /\ proc.errexit
                     THEN [ Exit(status) EXCEPT !.SESSION_COUNT = @ + 1 ]
                     ELSE [ proc EXCEPT !.SESSION_COUNT = @ + 1, !.pc = "claude",
                                        !.errexit = FALSE ]
          /\ UNCHANGED ghost
  /\ UNCHANGED <<tree, now, nextId, call, fs, save, stream, pass>>

\* supervisor.sh:89-96  claude ends with a status; then set -e
claude(code, final) ==
  /\ proc.pc = "claude"
  /\ final \in CurateStatuses(proc.script)
  /\ IF proc.pending
     THEN cleanup(final)
     ELSE /\ proc' = [ proc EXCEPT !.EXIT_CODE = code, !.errexit = TRUE, !.pc = "curate" ]
          /\ UNCHANGED ghost
  /\ UNCHANGED <<tree, now, nextId, call, fs, save, stream, pass>>

\* supervisor.sh:99  the curation after the exit of the agent
curate(status, final) ==
  /\ proc.pc = "curate"
  /\ status \in CurateStatuses(proc.script)
  /\ final \in CurateStatuses(proc.script)
  /\ IF proc.pending
     THEN cleanup(final)
     ELSE /\ proc' = IF status # 0 /\ proc.errexit
                     THEN Exit(status)
                     ELSE [ proc EXCEPT !.pc = "sleep" ]
          /\ UNCHANGED ghost
  /\ UNCHANGED <<tree, now, nextId, call, fs, save, stream, pass>>

\* supervisor.sh:101-103  sleep, and the next iteration
sleep(final) ==
  /\ proc.pc = "sleep"
  /\ final \in CurateStatuses(proc.script)
  /\ IF proc.pending
     THEN cleanup(final)
     ELSE /\ proc' = [ proc EXCEPT !.pc = "boot" ]
          /\ UNCHANGED ghost
  /\ UNCHANGED <<tree, now, nextId, call, fs, save, stream, pass>>

NextSupervisor ==
  \/ Signal
  \/ \E status \in {0, 1}, final \in {0, 1} : boot(status, final)
  \/ \E code \in ExitCodes, final \in {0, 1} : claude(code, final)
  \/ \E status \in {0, 1}, final \in {0, 1} : curate(status, final)
  \/ \E final \in {0, 1} : sleep(final)

SpecSupervisor == InitSupervisor /\ [][NextSupervisor]_vars

\* C30: the supervisor ends only by cleanup(), after the one curation of
\* cleanup(), and with status 0: neither the status of the agent nor a
\* failing curation ends it.
C30_OnlyASignalEndsTheSupervisor ==
  proc.pc = "exited" => (ghost.cleanups = 1 /\ proc.status = 0)

\* the status of the agent never ends the loop: when no signal is waiting,
\* the exit of the agent is followed by the curation, whatever its status
C30_AgentStatusNeverEndsTheLoop ==
  [][ (proc.pc = "claude" /\ ~proc.pending /\ proc'.pc # "claude") =>
        (proc'.pc = "curate" /\ proc'.EXIT_CODE \in ExitCodes) ]_vars

----------------------------------------------------------------------------
(* The curation the supervisor waits for                                   *)

\* curator-run.sh:34-80  the backend the script finds: curator.js, the ghost
\* curator, the lib curator, or none
Backends == {"lucidity", "ghost", "lib", "none"}

\* the supervisor waits for no curator
NoChild == "none"

\* supervisor.sh:10-19  the shell after its first lines, with the backend that
\* curator-run.sh will find
InitDaemon ==
  /\ tree = createTree
  /\ now = 0
  /\ nextId = 1
  /\ call = NoCall
  /\ FsIdle
  /\ stream = <<>>
  /\ pass = [ p \in Passes |-> IdlePass ]
  /\ \E backend \in Backends :
       proc = [ pc |-> "boot", errexit |-> TRUE, SESSION_COUNT |-> 0, EXIT_CODE |-> 0,
                pending |-> FALSE, status |-> 0, backend |-> backend, child |-> NoChild ]
  /\ ghost = [ cleanups |-> 0 ]

\* supervisor.sh:38-48, 62-66, 99, 31; curator-run.sh:36-43  curate() starts
\* the curator script, which starts its backend: `node curator.js` runs
\* run() of curator.js, the other backends run once
RunCurator ==
  /\ proc.pc \in {"boot", "curate", "cleanup"}
  /\ proc.child = NoChild
  /\ proc' = [ proc EXCEPT !.child = IF proc.backend = "lucidity" THEN "init" ELSE "once",
                           !.SESSION_COUNT = IF proc.pc = "boot" THEN @ + 1 ELSE @ ]
  /\ UNCHANGED <<tree, now, nextId, call, fs, save, stream, pass, ghost>>

\* supervisor.sh:28-34, 66-87, 99-101  the pipeline of curate() has ended with
\* a status: a waiting trap runs first; under errexit a failure ends the shell
CuratorEnded(status) ==
  IF proc.pc = "cleanup"
  THEN [ Exit(IF status # 0 /\ proc.errexit THEN status ELSE 0) EXCEPT !.child = NoChild ]
  ELSE IF proc.pending
  THEN [ proc EXCEPT !.pc = "cleanup", !.child = NoChild ]
  ELSE IF status # 0 /\ proc.errexit
  THEN [ Exit(status) EXCEPT !.child = NoChild ]
  ELSE IF proc.pc = "boot"
  THEN [ proc EXCEPT !.pc = "claude", !.errexit = FALSE, !.child = NoChild ]
  ELSE [ proc EXCEPT !.pc = "sleep", !.child = NoChild ]

\* curator-run.sh:48-80  a backend that runs once ends with a status
BackendEnds(status) ==
  /\ proc.child = "once"
  /\ proc.backend = "none" => status = 0
  /\ proc' = CuratorEnded(status)
  /\ UNCHANGED <<tree, now, nextId, call, fs, save, stream, pass, ghost>>

\* curator.js:81-110, 219-221  init() returns and the loop of run() begins
CuratorInit ==
  /\ proc.child = "init"
  /\ proc' = [ proc EXCEPT !.child = "curate" ]
  /\ UNCHANGED <<tree, now, nextId, call, fs, save, stream, pass, ghost>>

\* curator.js:87, 250-253  init() throws: process.exit(1)
CuratorInitThrows ==
  /\ proc.child = "init"
  /\ proc' = CuratorEnded(1)
  /\ UNCHANGED <<tree, now, nextId, call, fs, save, stream, pass, ghost>>

\* curator.js:222-223  while (running) { await curate();
CuratorPass ==
  /\ proc.child = "curate"
  /\ proc' = [ proc EXCEPT !.child = "sleep" ]
  /\ UNCHANGED <<tree, now, nextId, call, fs, save, stream, pass, ghost>>

\* curator.js:224-225  await sleep(CURATION_INTERVAL_MS); }
CuratorSleep ==
  /\ proc.child = "sleep"
  /\ proc' = [ proc EXCEPT !.child = "curate" ]
  /\ UNCHANGED <<tree, now, nextId, call, fs, save, stream, pass, ghost>>

\* curator.js:228-233, 246-248  the curator itself gets a signal: the final
\* pass and process.exit(0)
CuratorShutdown ==
  /\ proc.child \in {"curate", "sleep"}
  /\ proc' = CuratorEnded(0)
  /\ UNCHANGED <<tree, now, nextId, call, fs, save, stream, pass, ghost>>

\* supervisor.sh:89-96  claude ends with a status; a waiting trap runs, with
\* errexit off; else set -e
AgentExits(code) ==
  /\ proc.pc = "claude"
  /\ proc' = IF proc.pending
             THEN [ proc EXCEPT !.EXIT_CODE = code, !.pc = "cleanup" ]
             ELSE [ proc EXCEPT !.EXIT_CODE = code, !.errexit = TRUE, !.pc = "curate" ]
  /\ UNCHANGED <<tree, now, nextId, call, fs, save, stream, pass, ghost>>

\* supervisor.sh:101-103, 83-84  sleep, and the next iteration
NextIteration ==
  /\ proc.pc = "sleep"
  /\ proc.SESSION_COUNT < MaxSessions
  /\ proc' = [ proc EXCEPT !.pc = IF proc.pending THEN "cleanup" ELSE "boot" ]
  /\ UNCHANGED <<tree, now, nextId, call, fs, save, stream, pass, ghost>>

\* the steps of the shell and of the curator it waits for
DaemonSteps ==
  \/ RunCurator
  \/ \E status \in {0, 1} : BackendEnds(status)
  \/ CuratorInit
  \/ CuratorInitThrows
  \/ CuratorPass
  \/ CuratorSleep
  \/ \E code \in ExitCodes : AgentExits(code)
  \/ NextIteration

NextDaemon ==
  \/ DaemonSteps
  \/ Signal
  \/ CuratorShutdown

\* the shell and the curator go on as long as they can; signals are sent or not
SpecDaemon == InitDaemon /\ [][NextDaemon]_vars /\ WF_vars(DaemonSteps)

\* C31: the agent is launched only at the end of a curation of boot, the exit
\* of the agent is followed by a curation, and every boot that no signal
\* interrupts comes to the launch of the agent (or, when the curation fails,
\* to the end of the shell).
C31_EveryBootReachesTheLaunch ==
  /\ [][ /\ (proc.pc # "claude" /\ proc'.pc = "claude") =>
              (proc.pc = "boot" /\ proc.child # NoChild)
         /\ (proc.pc = "claude" /\ proc'.pc # "claude") =>
              proc'.pc \in {"curate", "cleanup"} ]_vars
  /\ (proc.pc = "boot" ~> (proc.pc \in {"claude", "exited"} \/ proc.pending))

\* the order of the loop alone: a curation before every launch and after every
\* exit of the agent, and with a backend that runs once every boot ends
C31_CurationBeforeAndAfterTheAgent ==
  /\ [][ /\ (proc.pc # "claude" /\ proc'.pc = "claude") =>
              (proc.pc = "boot" /\ proc.child # NoChild)
         /\ (proc.pc = "claude" /\ proc'.pc # "claude") =>
              proc'.pc \in {"curate", "cleanup"} ]_vars
  /\ ((proc.pc = "boot" /\ proc.backend # "lucidity")
        ~> (proc.pc \in {"claude", "exited"} \/ proc.pending))

----------------------------------------------------------------------------
(* The boot loader                                                          *)

\* part_006:105-108  the briefing written when main() has thrown
FallbackLines ==
  << Header, "", "boot-memory failed", "no previous memory available.", "" >>

\* what the run of boot-memory has put at the output path
BootWrote == {"briefing", "fallback", "nothing"}

\* the throw of main() is not caught: the process ends with status 1 and
\* nothing is written
BootMemoryUncaught(written, fallback) ==
  /\ call.op # "boot-memory"
  /\ LET loaded == loadTree(fs, TREE_PATH)
         t == IF loaded \in {NoTree, DecodeError} THEN createTree ELSE loaded
         thrown == loaded = EmptyObject \/ written = "throws"
     IN /\ tree' = IF loaded = EmptyObject THEN tree ELSE t
        /\ fs' = IF thrown THEN fs
                 ELSE WriteThenRename(fs, SKILL_MD_PATH,
                                      emitSkillMd(t, DefaultMaxTokens), written)
        /\ call' = [ NoCall EXCEPT
                       !.op = "boot-memory", !.error = NoError,
                       !.lines = IF thrown THEN <<>>
                                 ELSE SkillMdLines(t, DefaultMaxTokens),
                       !.content = IF thrown THEN "nothing" ELSE "briefing",
                       !.status = IF thrown THEN 1 ELSE 0 ]
  /\ UNCHANGED <<now, nextId, save, stream, proc, pass, ghost>>

\* part_006:56-116  boot-memory: main() catches and logs a throw of loadTree
\* and goes on with a new tree, reads the counts of the tree (a TypeError on
\* an object without nodes), writes skill.md through its temporary path;
\* the catch around main() writes the fallback briefing to the output path
\* (a throw of that write is swallowed) and the run ends with status 0
BootMemory(written, fallback) ==
  /\ call.op # "boot-memory"
  /\ LET loaded == loadTree(fs, TREE_PATH)
         t == IF loaded \in {NoTree, DecodeError} THEN createTree ELSE loaded
         thrown == loaded = EmptyObject \/ written = "throws"
     IN /\ tree' = IF loaded = EmptyObject THEN tree ELSE t
        /\ fs' = IF ~thrown
                 THEN WriteThenRename(fs, SKILL_MD_PATH,
                                      emitSkillMd(t, DefaultMaxTokens), written)
                 ELSE IF fallback = "ok"
                      THEN [ fs EXCEPT ![SKILL_MD_PATH] = File(Join(FallbackLines)) ]
                      ELSE fs
        /\ call' = [ NoCall EXCEPT
                       !.op = "boot-memory", !.error = NoError,
                       !.lines = IF ~thrown THEN SkillMdLines(t, DefaultMaxTokens)
                                 ELSE IF fallback = "ok" THEN FallbackLines ELSE <<>>,
                       !.content = IF ~thrown THEN "briefing"
                                   ELSE IF fallback = "ok" THEN "fallback" ELSE "nothing",
                       !.status = 0 ]
  /\ UNCHANGED <<now, nextId, save, stream, proc, pass, ghost>>

NextBoot ==
  \/ \E written, fallback \in Outcomes : BootMemory(written, fallback)
  \/ Restart

SpecBoot == InitBoot /\ [][NextBoot]_vars

\* C15: a snapshot file that cannot be decoded is handled as an absent one:
\* init() of the curator and the boot loader go on with a new empty tree and
\* do not end on the decode error.
C15_UndecodableSnapshotIsNoSnapshot ==
  [][ /\ Restart =>
           /\ proc'.state = "up"
           /\ loadTree(fs, TREE_PATH) = DecodeError => tree' = createTree
      /\ (\E written, fallback \in Outcomes : BootMemory(written, fallback)) =>
           /\ call'.error = NoError
           /\ loadTree(fs, TREE_PATH) = DecodeError => tree' = createTree ]_vars

\* the same, for the boot loader alone
C15_BootLoaderSurvives ==
  [][ (\E written, fallback \in Outcomes : BootMemory(written, fallback)) =>
        /\ call'.error = NoError
        /\ loadTree(fs, TREE_PATH) = DecodeError => tree' = createTree ]_vars

----------------------------------------------------------------------------
(* Curation passes that overlap                                             *)

\* a spine of one node of level lv and a node that no link names, both made
\* at hour 0
OrphanTree(lv) ==
  [ nodes |-> << SeedNode(1, 0, lv, 0, <<>>), SeedNode(2, 0, "full", 1, <<>>) >>,
    trunk |-> <<1>>,
    version |-> 1 ]

\* curator.js:81-110  init() has loaded the snapshot, if there is one: a spine
\* of one node of any level, with or without an orphan beside it, made two
\* hours, or a week and two hours, ago
InitOverlap ==
  /\ tree \in {createTree}
              \cup { SpineTree(1, [ i \in 1..MaxSpine |-> 0 ],
                               [ i \in 1..MaxSpine |-> lv ], FALSE) : lv \in Range(levels) }
              \cup { OrphanTree(lv) : lv \in Range(levels) }
  /\ now \in {2, DefaultTagAge + 2}
  /\ nextId = 1 + Cardinality(DOMAIN tree.nodes)
  /\ call = NoCall
  /\ fs = [ p \in Paths |-> IF p = TREE_PATH /\ tree # createTree
                             THEN File(Stringify(tree)) ELSE NoFile ]
  /\ save = NoSave
  /\ stream = <<>>
  /\ proc = [ state |-> "up", running |-> TRUE, offset |-> 0 ]
  /\ pass = [ p \in Passes |-> IdlePass ]
  /\ ghost = NoGhost

NextOverlap ==
  \/ TimerPass
  \/ Shutdown
  \/ \E p \in Passes : ExtractDone(p)
  \/ \E p \in Passes : SummarizeDone(p)
  \/ \E p \in Passes : SummarizeFailed(p)
  \/ \E p \in Passes, saved \in BOOLEAN : Finish(p, saved)
  \/ AgentAppends

SpecOverlap == InitOverlap /\ [][NextOverlap]_vars

\* the spine positions of the nodes made by ingestion
Ingested == { i \in 1..Len(tree.trunk) : tree.trunk[i] \in DOMAIN ghost.from }

\* C33: of two spine nodes made by ingestion, the one nearer the head was
\* made of chunks that come later in the transcript, also when a pass of
\* shutdown() starts while a pass of the timer loop is suspended.
C33_SpineFollowsTheStream ==
  \A i, j \in Ingested :
    i < j => \A a \in ghost.from[tree.trunk[i]], b \in ghost.from[tree.trunk[j]] : a > b

\* two passes have each made a node and the spine follows the transcript
C33_Witness ==
  /\ Cardinality(Ingested) = 2
  /\ C33_SpineFollowsTheStream
  /\ pass["shutdown"].pc # "idle"

----------------------------------------------------------------------------
(* Pruning pass after pass                                                  *)

\* time goes on until every node of the loaded tree is older than the
\* default age
AWeekPasses ==
  /\ now <= 240
  /\ now' = 240 + DefaultMaxAge + 1
  /\ UNCHANGED <<tree, nextId, call, fs, save, stream, proc, pass, ghost>>

\* pruneOrphans with its default age is called again and again on a loaded
\* tree, and nothing else is
NextPrune ==
  \/ PruneOrphansCall(DefaultMaxAge)
  \/ Tick
  \/ AWeekPasses

SpecPrune ==
  /\ InitLoaded
  /\ [][NextPrune]_vars
  /\ WF_vars(PruneOrphansCall(DefaultMaxAge))
  /\ WF_vars(AWeekPasses)

\* node n is in the map, no chain of links from the spine leads to it, and
\* it is older than the default age
OldOrphan(n) ==
  /\ n \in DOMAIN tree.nodes
  /\ n \notin Reachable(tree)
  /\ TooOld(now - tree.nodes[n].created_at, DefaultMaxAge)

\* a chain of one or more links leads from node n back to n
OnCycle(t, n) ==
  /\ n \in DOMAIN t.nodes
  /\ n \in ReachFrom(t, { l.target_id : l \in Range(t.nodes[n].links) })

\* a chain of links from a node on a cycle leads to n
HeldByCycle(t, n) ==
  \E c \in DOMAIN t.nodes : OnCycle(t, c) /\ n \in ReachFrom(t, {c})

\* C34: every node that no chain of links from the spine leads to and that is
\* older than the threshold is removed after finitely many pruneOrphans
\* passes, whether the orphans link to one another in a chain, in a cycle or
\* to themselves.
C34_OldOrphansAreRemoved ==
  \A n \in 1..MaxGraph : OldOrphan(n) ~> (n \notin DOMAIN tree.nodes)

\* the same, for the orphans that no cycle of links holds
C34_OldOrphansOffCyclesAreRemoved ==
  \A n \in 1..MaxGraph :
    (OldOrphan(n) /\ ~HeldByCycle(tree, n)) ~> (n \notin DOMAIN tree.nodes)

\* two passes have removed a chain of two old orphans, one node a pass
C34_Witness ==
  /\ call.op = "pruneOrphans"
  /\ call.pruned # <<>>
  /\ Cardinality(DOMAIN tree.nodes) = MaxGraph - 2

----------------------------------------------------------------------------
(* The ladder, pass by pass                                                 *)

\* the level of node id is one step further down the ladder after the step
OneStepDown(id) ==
  /\ id \in DOMAIN tree'.nodes
  /\ LevelIdx(tree'.nodes[id]) = LevelIdx(tree.nodes[id]) + 1

\* no step changes the created_at of a node
AgeKept ==
  \A n \in (DOMAIN tree.nodes) \cap (DOMAIN tree'.nodes) :
    tree'.nodes[n].created_at = tree.nodes[n].created_at

\* the scan of a pass returns no node that is at level tag
TagNeverTargeted ==
  LET targets == getCompactionTargets(tree, <<>>, now)
  IN \A i \in 1..Len(targets) :
       tree.nodes[targets[i].id].summary_level # "tag"

\* C35: compression leaves created_at as it was, a pass whose summarizer call
\* for a spine node returns moves that node exactly one step down the ladder
\* (so that a node older than a week climbs from full to tag in three
\* passes), and no scan of a pass returns a node that is at level tag.
C35_OneStepAPass ==
  /\ [][ /\ AgeKept
         /\ \A p \in Passes :
              SummarizeDone(p) => OneStepDown(Head(pass[p].targets).id) ]_vars
  /\ []TagNeverTargeted

\* the same, for the passes whose target still names the level of its node
C35_OneStepAPassWhenTheTargetIsCurrent ==
  /\ [][ /\ AgeKept
         /\ \A p \in Passes :
              (/\ SummarizeDone(p)
               /\ Head(pass[p].targets).from =
                     tree.nodes[Head(pass[p].targets).id].summary_level)
                => OneStepDown(Head(pass[p].targets).id) ]_vars
  /\ []TagNeverTargeted

\* the node that was loaded at level full more than a week old is at level
\* tag, its created_at is the one it was loaded with, and no pass is running
C35_Witness ==
  /\ now = DefaultTagAge + 2
  /\ 1 \in DOMAIN tree.nodes
  /\ tree.nodes[1].summary_level = "tag"
  /\ tree.nodes[1].created_at = 0
  /\ tree.nodes[1].updated_at = now
  /\ \A p \in Passes : pass[p].pc = "idle"

----------------------------------------------------------------------------
(* Persisting and pruning                                                   *)

\* the tree as it was when the step was about to remove nodes: the tree after
\* the step, with the removed nodes put back
BeforeRemoval ==
  [ tree' EXCEPT !.nodes = [ n \in (DOMAIN tree'.nodes) \cup Removed |->
                               IF n \in Removed THEN tree.nodes[n] ELSE tree'.nodes[n] ] ]

\* C36: when a curation pass removes a node, the snapshot on disk is the tree
\* as it was just before the removal: the save comes before the prune.
C36_SavedBeforePruned ==
  [][ Removed # {} => loadTree(fs, TREE_PATH) = BeforeRemoval ]_vars

\* every node a pass removes is a node of the snapshot on disk, with the
\* content it had when it was removed
C36_RemovedNodesAreInTheSnapshot ==
  [][ \A n \in Removed :
        LET loaded == loadTree(fs, TREE_PATH)
        IN /\ loaded \notin {NoTree, DecodeError}
           /\ n \in DOMAIN loaded.nodes
           /\ loaded.nodes[n] = tree.nodes[n] ]_vars

\* a pass has removed the orphan and the snapshot on disk still holds it
C36_Witness ==
  /\ \E p \in Passes : pass[p].pc = "save"
  /\ 2 \notin DOMAIN tree.nodes
  /\ fs[TREE_PATH] # NoFile
  /\ 2 \in DOMAIN loadTree(fs, TREE_PATH).nodes

----------------------------------------------------------------------------
(* Markers and ingestion                                                    *)

\* the lines of the transcript after position k that are not marker lines
ChunksAfter(k) == { i \in (k + 1)..Len(stream) : stream[i].kind = "chunk" }

\* the number of marker lines in a transcript
MarkerCount(s) == Cardinality({ i \in 1..Len(s) : s[i].kind = "marker" })

\* the step is the start of pass p
Starts(p) == pass[p].pc = "idle" /\ pass'[p].pc # "idle"

\* how many markers the curator can still write if nothing is appended from
\* outside: one for each pass that waits for its facts, and one for the pass
\* that will read what is unread (a new process reads from the last marker)
PendingMarkers ==
  IF proc.state = "up"
  THEN Cardinality({ p \in Passes : pass[p].pc = "extract" })
         + (IF ChunksAfter(proc.offset) # {} THEN 1 ELSE 0)
  ELSE IF proc.state = "down" /\ ChunksAfter(findLastMarkerOffset(stream)) # {}
       THEN 1 ELSE 0

\* C37: markers do not feed ingestion. A pass that reads nothing but marker
\* lines waits for no facts (it makes no node and writes no marker); the
\* delta of a pass holds the lines read that are no markers, and only them;
\* a marker is written only by a pass that leaves its wait for the facts,
\* one marker a pass; and a step that is no append from outside never adds
\* to the markers still to come, so that once the appends stop, one further
\* pass reads what is left and no pass after it writes.
C37_MarkersAreNotIngested ==
  [][ /\ \A p \in Passes :
           Starts(p) =>
             /\ Len(pass'[p].delta) = Cardinality(ChunksAfter(proc.offset))
             /\ ChunksAfter(proc.offset) = {} =>
                  (pass'[p].pc # "extract" /\ stream' = stream)
             /\ ChunksAfter(proc'.offset) = {}
      /\ MarkerCount(stream') # MarkerCount(stream) =>
           /\ MarkerCount(stream') = MarkerCount(stream) + 1
           /\ \E p \in Passes : pass[p].pc = "extract" /\ pass'[p].pc # "extract"
      /\ (ChunksAfter(0) = { i \in 1..Len(stream') : stream'[i].kind = "chunk" }) =>
           PendingMarkers' + MarkerCount(stream') <= PendingMarkers + MarkerCount(stream)
    ]_vars

\* a pass has read a delta of one marker line and has gone on to its last
\* lines without making a node
C37_Witness ==
  /\ proc.state = "up"
  /\ proc.running
  /\ pass["timer"].pc = "save"
  /\ Len(stream) = 2
  /\ stream[1].kind = "chunk"
  /\ stream[2].kind = "marker"
  /\ proc.offset = 2

----------------------------------------------------------------------------
(* Structural integrity                                                     *)

\* every spine id and every link target names a node of the map, and no id is
\* on the spine twice
Sound(t) ==
  /\ \A i \in 1..Len(t.trunk) : t.trunk[i] \in DOMAIN t.nodes
  /\ \A n \in DOMAIN t.nodes : \A i \in 1..Len(t.nodes[n].links) :
        t.nodes[n].links[i].target_id \in DOMAIN t.nodes
  /\ \A i, j \in 1..Len(t.trunk) : t.trunk[i] = t.trunk[j] => i = j

\* C38: in every tree built from createTree by addTrunkNode, addBranchNode,
\* compressNode and pruneOrphans, every id on the spine and every target_id of
\* every link is a key of the node map, and the spine ids are pairwise
\* distinct.
C38_StructuralIntegrity == Sound(tree)

\* a prune call has come upon a branch node older than its maxAge, has kept
\* it, and the link of the spine node still names a node of the map
C38_Witness ==
  /\ call.op = "pruneOrphans"
  /\ \E i \in 1..Len(tree.trunk) :
        LET links == tree.nodes[tree.trunk[i]].links
        IN /\ links # <<>>
           /\ links[1].target_id \in DOMAIN tree.nodes
           /\ now - tree.nodes[links[1].target_id].created_at > call.maxAge

----------------------------------------------------------------------------
(* mergebot: the circuit breaker around the remote calls of a scan. proc    *)
(* holds the shell variables and the position in the script, call the last  *)
(* remote call and how it ended, ghost the failed remote calls since the    *)
(* last remote call that succeeded.                                         *)

\* how many scans, repositories a scan and branches a repository are followed
MaxScans == 2
MaxRepos == 2
MaxBranches == 3

\* mergebot.sh:107
CIRCUIT_BREAKER_THRESHOLD == 3

\* mergebot.sh:108  1800 seconds, counted here in quarters of an hour
CIRCUIT_BREAKER_BACKOFF == 2

\* mergebot.sh:111-114
circuit_record_success(p) ==
  [ p EXCEPT !.CONSECUTIVE_ERRORS = 0, !.CIRCUIT_TRIPPED = FALSE ]

\* mergebot.sh:116-122
circuit_record_error(p) ==
  [ p EXCEPT !.CONSECUTIVE_ERRORS = @ + 1,
             !.CIRCUIT_TRIPPED =
                IF p.CONSECUTIVE_ERRORS + 1 >= CIRCUIT_BREAKER_THRESHOLD THEN TRUE ELSE @ ]

\* mergebot.sh:199, 304  continue: the loop goes on with the next branch
NextBranchOf(p) == [ p EXCEPT !.pc = "branch", !.branches = @ - 1 ]

\* a remote call has ended
Called(op, result) == [ NoCall EXCEPT !.op = op, !.content = result ]

\* a remote call has failed, or has succeeded
Failed == [ ghost EXCEPT !.sinceSuccess = @ + 1 ]
Succeeded == [ ghost EXCEPT !.sinceSuccess = 0 ]

\* mergebot.sh:26-53, 106-109, 386-391, 430  the script starts, once or in
\* watch mode, with or without --dry-run
InitMergebot ==
  /\ tree = createTree
  /\ now = 0
  /\ nextId = 1
  /\ call = NoCall
  /\ FsIdle
  /\ stream = <<>>
  /\ pass = [ p \in Passes |-> IdlePass ]
  /\ \E watch, dry \in BOOLEAN :
        proc = [ pc |-> "main", RUNNING |-> TRUE, watch |-> watch, DRY_RUN |-> dry,
                 CONSECUTIVE_ERRORS |-> 0, CIRCUIT_TRIPPED |-> FALSE,
                 i |-> 0, repos |-> 0, branches |-> 0, SCAN_COUNT |-> 0 ]
  /\ ghost = [ sinceSuccess |-> 0 ]

MergebotFrame == UNCHANGED <<tree, now, nextId, fs, save, stream, pass>>

\* mergebot.sh:440  trap 'RUNNING=false' SIGINT SIGTERM
MergebotSignal ==
  /\ proc.pc \notin {"stopped"}
  /\ proc.RUNNING
  /\ proc' = [ proc EXCEPT !.RUNNING = FALSE ]
  /\ UNCHANGED <<call, ghost>>
  /\ MergebotFrame

\* mergebot.sh:393-398  main(): one scan_all, or the test of the watch loop
\* and the test of circuit_wait_if_tripped
LoopTop ==
  /\ proc.pc = "main"
  /\ proc.SCAN_COUNT < MaxScans
  /\ IF proc.watch /\ ~proc.RUNNING
     THEN proc' = [ proc EXCEPT !.pc = "stopped" ]
     ELSE IF proc.watch /\ proc.CIRCUIT_TRIPPED
     THEN proc' = [ proc EXCEPT !.pc = "backoff", !.i = 0 ]
     ELSE \E r \in 1..MaxRepos : proc' = [ proc EXCEPT !.pc = "repo", !.repos = r ]
  /\ UNCHANGED <<call, ghost>>
  /\ MergebotFrame

\* mergebot.sh:128-131  one turn of the loop of circuit_wait_if_tripped
BackoffSleep ==
  /\ proc.pc = "backoff"
  /\ proc.i < CIRCUIT_BREAKER_BACKOFF
  /\ proc.RUNNING
  /\ proc' = [ proc EXCEPT !.i = @ + 1 ]
  /\ UNCHANGED <<call, ghost>>
  /\ MergebotFrame

\* mergebot.sh:128, 132-133, 405  the loop of circuit_wait_if_tripped ends
\* (the time is over or RUNNING is false), the breaker is reset, and main()
\* goes on to scan_all
BackoffEnds ==
  /\ proc.pc = "backoff"
  /\ proc.i >= CIRCUIT_BREAKER_BACKOFF \/ ~proc.RUNNING
  /\ \E r \in 1..MaxRepos :
        proc' = [ proc EXCEPT !.CONSECUTIVE_ERRORS = 0, !.CIRCUIT_TRIPPED = FALSE,
                              !.pc = "repo", !.repos = r ]
  /\ ghost' = Succeeded
  /\ UNCHANGED call
  /\ MergebotFrame

\* mergebot.sh:353-371  scan_all comes to a repository with b branches
EnterRepo(b) ==
  /\ proc.pc = "repo"
  /\ proc.repos > 0
  /\ proc' = [ proc EXCEPT !.pc = "branch", !.branches = b ]
  /\ UNCHANGED <<call, ghost>>
  /\ MergebotFrame

\* mergebot.sh:200-217  a protected branch, or one that is tracked already
SkipBranch ==
  /\ proc.pc = "branch"
  /\ proc.branches > 0
  /\ proc' = NextBranchOf(proc)
  /\ UNCHANGED <<call, ghost>>
  /\ MergebotFrame

\* mergebot.sh:219-223  the breaker is tripped: scan_repo returns 1
TrippedReturn ==
  /\ proc.pc = "branch"
  /\ proc.branches > 0
  /\ proc.CIRCUIT_TRIPPED
  /\ proc' = [ proc EXCEPT !.pc = "repo", !.repos = @ - 1, !.branches = 0 ]
  /\ UNCHANGED <<call, ghost>>
  /\ MergebotFrame

\* mergebot.sh:225-248  git ls-remote: it fails, it lists nothing (the branch
\* is not pushed), or it lists the branch, which is then level with the base
\* or ahead of it
LsRemote(result) ==
  /\ proc.pc = "branch"
  /\ proc.branches > 0
  /\ ~proc.CIRCUIT_TRIPPED
  /\ call' = Called("ls-remote", result)
  /\ IF result = "fails"
     THEN proc' = NextBranchOf(circuit_record_error(proc)) /\ ghost' = Failed
     ELSE /\ ghost' = Succeeded
          /\ proc' = IF result = "ahead" THEN [ proc EXCEPT !.pc = "gh pr list" ]
                     ELSE NextBranchOf(proc)
  /\ MergebotFrame

\* mergebot.sh:250-271  gh pr list: it fails, it names a pull request, or it
\* names none
PrList(result) ==
  /\ proc.pc = "gh pr list"
  /\ call' = Called("gh pr list", result)
  /\ IF result = "fails"
     THEN proc' = NextBranchOf(circuit_record_error(proc)) /\ ghost' = Failed
     ELSE /\ ghost' = Succeeded
          /\ proc' = IF result = "none" /\ ~proc.DRY_RUN
                     THEN [ circuit_record_success(proc) EXCEPT !.pc = "gh pr create" ]
                     ELSE NextBranchOf(circuit_record_success(proc))
  /\ MergebotFrame

\* mergebot.sh:273-302  gh pr create: it fails, it answers that the pull
\* request exists (which the script takes as a success), or it makes the
\* pull request
PrCreate(result) ==
  /\ proc.pc = "gh pr create"
  /\ call' = Called("gh pr create", result)
  /\ IF result = "fails"
     THEN proc' = NextBranchOf(circuit_record_error(proc)) /\ ghost' = Failed
     ELSE proc' = NextBranchOf(circuit_record_success(proc)) /\ ghost' = Succeeded
  /\ MergebotFrame

\* mergebot.sh:304-317  the branches of the repository are done
RepoDone ==
  /\ proc.pc = "branch"
  /\ proc.branches = 0
  /\ proc' = [ proc EXCEPT !.pc = "repo", !.repos = @ - 1 ]
  /\ UNCHANGED <<call, ghost>>
  /\ MergebotFrame

\* mergebot.sh:373-377, 398, 410-424  scan_all ends; in watch mode the sleep
\* follows, which ends when the time is over or RUNNING is false
ScanDone ==
  /\ proc.pc = "repo"
  /\ proc.repos = 0
  /\ proc' = [ proc EXCEPT !.SCAN_COUNT = @ + 1,
                           !.pc = IF proc.watch THEN "main" ELSE "stopped" ]
  /\ UNCHANGED <<call, ghost>>
  /\ MergebotFrame

NextMergebot ==
  \/ MergebotSignal
  \/ LoopTop
  \/ BackoffSleep
  \/ BackoffEnds
  \/ \E b \in 0..MaxBranches : EnterRepo(b)
  \/ SkipBranch
  \/ TrippedReturn
  \/ \E r \in {"fails", "nothing", "level", "ahead"} : LsRemote(r)
  \/ \E r \in {"fails", "listed", "none"} : PrList(r)
  \/ \E r \in {"fails", "exists", "created"} : PrCreate(r)
  \/ RepoDone
  \/ ScanDone

SpecMergebot == InitMergebot /\ [][NextMergebot]_vars

\* the step is a remote call
RemoteCall ==
  \/ \E r \in {"fails", "nothing", "level", "ahead"} : LsRemote(r)
  \/ \E r \in {"fails", "listed", "none"} : PrList(r)
  \/ \E r \in {"fails", "exists", "created"} : PrCreate(r)

\* C39: the breaker is tripped exactly when three remote calls have failed
\* with no successful remote call between them; a remote call that succeeds
\* sets the error count to 0; no remote call is made while the breaker is
\* tripped; and in watch mode the wait resets the breaker before the next
\* scan.
C39_BreakerTripsOnThreeErrorsInARow ==
  /\ [](proc.CIRCUIT_TRIPPED <=> ghost.sinceSuccess >= CIRCUIT_BREAKER_THRESHOLD)
  /\ [][ /\ (RemoteCall /\ ghost'.sinceSuccess = 0) => proc'.CONSECUTIVE_ERRORS = 0
         /\ RemoteCall => ~proc.CIRCUIT_TRIPPED
         /\ BackoffEnds => (~proc'.CIRCUIT_TRIPPED /\ proc'.CONSECUTIVE_ERRORS = 0) ]_vars

\* the same, for the count the script keeps: it is the number of failed
\* remote calls since the last gh call that succeeded and since the last
\* wait; a successful ls-remote leaves it as it is
C39_BreakerTripsOnTheCountOfTheScript ==
  /\ [](proc.CIRCUIT_TRIPPED <=> proc.CONSECUTIVE_ERRORS >= CIRCUIT_BREAKER_THRESHOLD)
  /\ [][ /\ \A r \in {"listed", "none"} : PrList(r) => proc'.CONSECUTIVE_ERRORS = 0
         /\ \A r \in {"exists", "created"} : PrCreate(r) => proc'.CONSECUTIVE_ERRORS = 0
         /\ \A r \in {"nothing", "level", "ahead"} :
              LsRemote(r) => proc'.CONSECUTIVE_ERRORS = proc.CONSECUTIVE_ERRORS
         /\ (RemoteCall /\ call'.content = "fails") =>
              proc'.CONSECUTIVE_ERRORS = proc.CONSECUTIVE_ERRORS + 1
         /\ RemoteCall => ~proc.CIRCUIT_TRIPPED
         /\ BackoffEnds => (~proc'.CIRCUIT_TRIPPED /\ proc'.CONSECUTIVE_ERRORS = 0) ]_vars

\* the breaker is tripped, and the remote call before the last failure was a
\* success
C39_Witness ==
  /\ proc.CIRCUIT_TRIPPED
  /\ ghost.sinceSuccess < CIRCUIT_BREAKER_THRESHOLD
  /\ proc.pc = "backoff"
  /\ proc.i = CIRCUIT_BREAKER_BACKOFF

====
